---- MODULE Spec2Model ----
(***************************************************************************)
(* Model of the ingestion pipeline of src/services/dataProcessor.ts:       *)
(* processFiles, parseCsvFile, parseExcelFile and inferAndConvertTypes.    *)
(*                                                                         *)
(* Strings are sequences of one-character strings, so that trim,           *)
(* toLowerCase, endsWith and the type recognizers are computed and not     *)
(* assumed.  A JavaScript object is a sequence of [k, v] pairs with        *)
(* distinct keys, in insertion order.                                      *)
(***************************************************************************)
EXTENDS Integers, Sequences, FiniteSets, TLC

(***************************************************************************)
(* Bounds of the model.                                                    *)
(***************************************************************************)
MaxFiles == 3
MaxCols == 2
MaxRows == 2
MaxRuns == 2
MaxSelected == 3

(***************************************************************************)
(* Strings.                                                                *)
(***************************************************************************)
WhiteSpace == {" ", "\t"}

RECURSIVE TrimLeft(_)
TrimLeft(s) ==
    IF s = <<>> THEN s
    ELSE IF Head(s) \in WhiteSpace THEN TrimLeft(Tail(s)) ELSE s

RECURSIVE TrimRight(_)
TrimRight(s) ==
    IF s = <<>> THEN s
    ELSE IF s[Len(s)] \in WhiteSpace THEN TrimRight(SubSeq(s, 1, Len(s) - 1)) ELSE s

\* String.prototype.trim
Trim(s) == TrimRight(TrimLeft(s))

UpperLetters == <<"A","B","C","D","E","F","G","H","I","J","K","L","M",
                  "N","O","P","Q","R","S","T","U","V","W","X","Y","Z">>
LowerLetters == <<"a","b","c","d","e","f","g","h","i","j","k","l","m",
                  "n","o","p","q","r","s","t","u","v","w","x","y","z">>

ToLowerChar(c) ==
    IF \E i \in 1..Len(UpperLetters) : UpperLetters[i] = c
    THEN LowerLetters[CHOOSE i \in 1..Len(UpperLetters) : UpperLetters[i] = c]
    ELSE c

\* String.prototype.toLowerCase
ToLowerCase(s) == [i \in 1..Len(s) |-> ToLowerChar(s[i])]

\* String.prototype.endsWith
EndsWith(s, suffix) ==
    /\ Len(s) >= Len(suffix)
    /\ SubSeq(s, Len(s) - Len(suffix) + 1, Len(s)) = suffix

\* Array.prototype.join on an array of strings
RECURSIVE Join(_, _)
Join(parts, sep) ==
    IF parts = <<>> THEN <<>>
    ELSE IF Len(parts) = 1 THEN parts[1]
    ELSE parts[1] \o <<sep>> \o Join(Tail(parts), sep)

\* a JavaScript string is truthy iff it is not empty
Truthy(s) == s # <<>>

(***************************************************************************)
(* Cell values: null, undefined, boolean, number (m * 10^-s), string,      *)
(* array (only the parser's extra-fields value; txt is its String()).      *)
(***************************************************************************)
Null == [kind |-> "null", b |-> FALSE, m |-> 0, s |-> 0, txt |-> <<>>]
Undefined == [kind |-> "undefined", b |-> FALSE, m |-> 0, s |-> 0, txt |-> <<>>]
Text(t) == [kind |-> "string", b |-> FALSE, m |-> 0, s |-> 0, txt |-> t]
Bool(x) == [kind |-> "boolean", b |-> x, m |-> 0, s |-> 0, txt |-> <<>>]
Num(mant, scale) == [kind |-> "number", b |-> FALSE, m |-> mant, s |-> scale, txt |-> <<>>]
Arr(parts) == [kind |-> "array", b |-> FALSE, m |-> 0, s |-> 0, txt |-> Join(parts, ",")]

(***************************************************************************)
(* Objects: insertion-ordered key/value pairs with distinct keys.          *)
(***************************************************************************)
Keys(obj) == [i \in 1..Len(obj) |-> obj[i].k]
KeySet(obj) == {obj[i].k : i \in 1..Len(obj)}
HasKey(obj, key) == \E i \in 1..Len(obj) : obj[i].k = key

\* obj[key]: undefined when the property is absent
Get(obj, key) ==
    IF HasKey(obj, key)
    THEN obj[CHOOSE i \in 1..Len(obj) : obj[i].k = key].v
    ELSE Undefined

\* obj[key] = val: overwrite in place, or append a new property
Put(obj, key, val) ==
    IF HasKey(obj, key)
    THEN [i \in 1..Len(obj) |-> IF obj[i].k = key THEN [k |-> key, v |-> val] ELSE obj[i]]
    ELSE Append(obj, [k |-> key, v |-> val])

Range(seq) == {seq[i] : i \in 1..Len(seq)}
NoDuplicates(seq) == \A i, j \in 1..Len(seq) : seq[i] = seq[j] => i = j

(***************************************************************************)
(* The delimited-text parser as parseCsvFile calls it: header mode, one    *)
(* given delimiter.  A text source is its header cells, its data lines     *)
(* (each a list of cells) and the separator character written between the  *)
(* cells.  Splitting on the source's own separator recovers the cells; any *)
(* other delimiter leaves each line in one piece.  The three encodings     *)
(* decode the ASCII separators alike, so the split does not depend on the  *)
(* encoding.                                                               *)
(***************************************************************************)
encodingsToTry == <<"UTF-8", "windows-1252", "ISO-8859-1">>
delimitersToTry == <<";", ",", "\t", "|">>

ParsedExtra == <<"_", "_", "p", "a", "r", "s", "e", "d", "_", "e", "x", "t", "r", "a">>

NoMeta == [fields |-> <<>>, delimiter |-> "", encoding |-> ""]
NoResult == [status |-> "none", data |-> <<>>, errors |-> <<>>, meta |-> NoMeta]
PapaFailure == [status |-> "error", data |-> <<>>, errors |-> <<>>, meta |-> NoMeta]

\* the object of one data line: fields[j] -> cell j, surplus cells collected
\* under the extra-fields key, missing cells left absent
RECURSIVE PapaRow(_, _, _)
PapaRow(fields, cells, n) ==
    IF n = 0 THEN <<>>
    ELSE LET prev == PapaRow(fields, cells, n - 1)
         IN  IF n > Len(fields)
             THEN Put(prev, ParsedExtra, Arr(SubSeq(cells, Len(fields) + 1, n)))
             ELSE Put(prev, fields[n], Text(cells[n]))

\* the diagnostics of the lines from the i-th on; row is the 0-based data row
RECURSIVE PapaRowErrors(_, _, _)
PapaRowErrors(fields, lines, i) ==
    IF i > Len(lines) THEN <<>>
    ELSE LET rest == PapaRowErrors(fields, lines, i + 1)
         IN  IF Len(lines[i]) < Len(fields)
             THEN <<[type |-> "FieldMismatch", code |-> "TooFewFields",
                     message |-> "Too few fields", row |-> i - 1]>> \o rest
             ELSE IF Len(lines[i]) > Len(fields)
             THEN <<[type |-> "FieldMismatch", code |-> "TooManyFields",
                     message |-> "Too many fields", row |-> i - 1]>> \o rest
             ELSE rest

QuoteErrors(content) ==
    IF content.quoteErr
    THEN <<[type |-> "Quotes", code |-> "MissingQuotes",
            message |-> "Quoted field unterminated", row |-> 0]>>
    ELSE <<>>

\* the cells of one line as the given delimiter splits them
SplitLine(cells, sep, delimiter) ==
    IF delimiter = sep THEN cells ELSE <<Join(cells, sep)>>

PapaParse(content, delimiter) ==
    IF content.form = "blank"
    THEN [status |-> "complete", data |-> <<>>, errors |-> <<>>,
          meta |-> [fields |-> <<>>, delimiter |-> delimiter, encoding |-> ""]]
    ELSE LET fields == SplitLine(content.header, content.sep, delimiter)
             lines == [i \in 1..Len(content.lines) |->
                          SplitLine(content.lines[i], content.sep, delimiter)]
         IN  [status |-> "complete",
              data |-> [i \in 1..Len(lines) |-> PapaRow(fields, lines[i], Len(lines[i]))],
              errors |-> QuoteErrors(content) \o PapaRowErrors(fields, lines, 1),
              meta |-> [fields |-> fields, delimiter |-> delimiter, encoding |-> ""]]

\* a source the model knows nothing about: the parser may fail or may report
\* any number of columns, attempt by attempt
PoolName(j) == [i \in 1..j |-> "a"]

OpaqueResult(n, delimiter) ==
    LET fields == [j \in 1..n |-> PoolName(j)]
    IN  [status |-> "complete",
         data |-> IF n = 0 THEN <<>>
                  ELSE <<[j \in 1..n |-> [k |-> fields[j], v |-> Text(<<"1">>)]]>>,
         errors |-> <<>>,
         meta |-> [fields |-> fields, delimiter |-> delimiter, encoding |-> ""]]

\* what Papa.parse may hand to its complete/error callbacks
PapaOutcomes(content, delimiter) ==
    IF content.form = "opaque"
    THEN {PapaFailure} \cup {OpaqueResult(n, delimiter) : n \in 0..MaxCols}
    ELSE {PapaParse(content, delimiter)}

(***************************************************************************)
(* Errors and notices.  A message is a record of its parts: the fixed      *)
(* text, the file name it quotes, and for a row diagnostic the line        *)
(* number, the parser's message and its code.                              *)
(***************************************************************************)
Reason(text, file, line, message, code) ==
    [text |-> text, file |-> file, line |-> line, message |-> message, code |-> code]

\* new Error(message), and a rejection value that is not an Error
ErrorOf(reason) == [isError |-> TRUE, message |-> reason]
NotAnError == [isError |-> FALSE, message |-> Reason("", <<>>, 0, "", "")]

Notice(fileName, reason) == [fileName |-> fileName, reason |-> reason]

(***************************************************************************)
(* parseExcelFile.  A workbook is how its read ends (load) and, sheet by   *)
(* sheet, the row objects sheet_to_json yields for it (defval null: every  *)
(* row carries every header key).                                          *)
(***************************************************************************)
RECURSIVE ExcelTrimRow(_, _)
ExcelTrimRow(row, n) ==
    IF n = 0 THEN <<>>
    ELSE Put(ExcelTrimRow(row, n - 1), Trim(row[n].k), row[n].v)

SheetResult(jsonData) ==
    [status |-> "complete",
     data |-> [i \in 1..Len(jsonData) |-> ExcelTrimRow(jsonData[i], Len(jsonData[i]))],
     errors |-> <<>>,
     meta |-> [fields |-> [j \in 1..Len(jsonData[1]) |-> Trim(Keys(jsonData[1])[j])],
               delimiter |-> "", encoding |-> ""]]

\* variant: the sheets' results are collected last sheet first
RECURSIVE SheetResultsLastFirst(_, _)
SheetResultsLastFirst(sheets, n) ==
    IF n = 0 THEN <<>>
    ELSE IF Len(sheets[n]) > 0
         THEN <<SheetResult(sheets[n])>> \o SheetResultsLastFirst(sheets, n - 1)
         ELSE SheetResultsLastFirst(sheets, n - 1)

RECURSIVE SheetResults(_, _)
SheetResults(sheets, n) ==
    IF n = 0 THEN <<>>
    ELSE IF Len(sheets[n]) > 0
         THEN Append(SheetResults(sheets, n - 1), SheetResult(sheets[n]))
         ELSE SheetResults(sheets, n - 1)

\* variant: a workbook that cannot be decoded reads as one without sheets
ParseExcelFileLenient(file) ==
    CASE file.content.load = "readerror" ->
            [settled |-> "rejected", results |-> <<>>, error |-> NotAnError]
      [] file.content.load \in {"noresult", "corrupt"} ->
            [settled |-> "resolved", results |-> <<>>, error |-> NotAnError]
      [] OTHER ->
            [settled |-> "resolved",
             results |-> SheetResults(file.content.sheets, Len(file.content.sheets)),
             error |-> NotAnError]

\* the settled promise: resolved with results, or rejected with error
ParseExcelFile(file) ==
    CASE file.content.load = "readerror" ->
            [settled |-> "rejected", results |-> <<>>, error |-> NotAnError]
      [] file.content.load = "noresult" ->
            [settled |-> "resolved", results |-> <<>>, error |-> NotAnError]
      [] file.content.load = "corrupt" ->
            [settled |-> "rejected", results |-> <<>>,
             error |-> ErrorOf(Reason("Failed to parse", file.name, 0, "File is corrupted", ""))]
      [] OTHER ->
            [settled |-> "resolved",
             results |-> SheetResults(file.content.sheets, Len(file.content.sheets)),
             error |-> NotAnError]

(***************************************************************************)
(* Type recognizers and conversions                                        *)
(***************************************************************************)
Digits == <<"0", "1", "2", "3", "4", "5", "6", "7", "8", "9">>
IsDigit(c) == \E i \in 1..Len(Digits) : Digits[i] = c
DigitVal(c) == (CHOOSE i \in 1..Len(Digits) : Digits[i] = c) - 1
AllDigits(s) == \A i \in 1..Len(s) : IsDigit(s[i])

HexLetters == {"a", "b", "c", "d", "e", "f"}

RECURSIVE DigitsValue(_)
DigitsValue(s) ==
    IF s = <<>> THEN 0
    ELSE DigitsValue(SubSeq(s, 1, Len(s) - 1)) * 10 + DigitVal(s[Len(s)])

isBooleanString(val) ==
    LET lower == ToLowerCase(val)
    IN  \/ lower = <<"t", "r", "u", "e">>
        \/ lower = <<"f", "a", "l", "s", "e">>
        \/ lower = <<"y", "e", "s">>
        \/ lower = <<"n", "o">>
        \/ lower = <<"1">>
        \/ lower = <<"0">>

\* variant: only the words count as true, the digit does not
toBooleanWordsOnly(val) ==
    LET lower == ToLowerCase(val)
    IN  \/ lower = <<"t", "r", "u", "e">>
        \/ lower = <<"y", "e", "s">>

toBoolean(val) ==
    LET lower == ToLowerCase(val)
    IN  \/ lower = <<"t", "r", "u", "e">>
        \/ lower = <<"y", "e", "s">>
        \/ lower = <<"1">>

\* variant: /^-?(0|[1-9]\d*)$/, no leading zeros
isIntegerStringCanonical(val) ==
    LET body == IF val # <<>> /\ Head(val) = "-" THEN Tail(val) ELSE val
    IN  body # <<>> /\ AllDigits(body) /\ (Len(body) > 1 => Head(body) # "0")

\* /^-?\d+$/
isIntegerString(val) ==
    LET body == IF val # <<>> /\ Head(val) = "-" THEN Tail(val) ELSE val
    IN  body # <<>> /\ AllDigits(body)

\* a number m * 10^-s in lowest terms of ten
RECURSIVE Normal(_, _)
Normal(m, s) ==
    IF m = 0 THEN Num(0, 0)
    ELSE IF s > 0 /\ m % 10 = 0 THEN Normal(m \div 10, s - 1)
    ELSE Num(m, s)

\* parseInt(val, 10) of a string the integer recognizer accepts
ParseInt(val) ==
    IF Head(val) = "-" THEN Num(0 - DigitsValue(Tail(val)), 0) ELSE Num(DigitsValue(val), 0)

\* a signed decimal literal without exponent: digits, "digits.", "digits.digits"
\* or ".digits" after an optional sign
IsDecimal(val) ==
    LET body == IF val # <<>> /\ Head(val) \in {"-", "+"} THEN Tail(val) ELSE val
        dots == {i \in 1..Len(body) : body[i] = "."}
    IN  /\ body # <<>>
        /\ Cardinality(dots) <= 1
        /\ \A i \in 1..Len(body) : IsDigit(body[i]) \/ body[i] = "."
        /\ \E i \in 1..Len(body) : IsDigit(body[i])

DecimalValue(val) ==
    LET neg == Head(val) = "-"
        body == IF Head(val) \in {"-", "+"} THEN Tail(val) ELSE val
        dot == IF \E i \in 1..Len(body) : body[i] = "."
               THEN CHOOSE i \in 1..Len(body) : body[i] = "."
               ELSE Len(body) + 1
        whole == SubSeq(body, 1, dot - 1)
        frac == SubSeq(body, dot + 1, Len(body))
        mant == DigitsValue(whole \o frac)
    IN  Normal(IF neg THEN 0 - mant ELSE mant, Len(frac))

\* 0x, 0o and 0b literals, which Number() reads and parseFloat() does not
IsRadixLiteral(val) ==
    /\ Len(val) >= 3
    /\ val[1] = "0"
    /\ LET tag == ToLowerChar(val[2])
           body == ToLowerCase(SubSeq(val, 3, Len(val)))
       IN  \/ tag = "x" /\ \A i \in 1..Len(body) : IsDigit(body[i]) \/ body[i] \in HexLetters
           \/ tag = "o" /\ \A i \in 1..Len(body) : body[i] \in {"0","1","2","3","4","5","6","7"}
           \/ tag = "b" /\ \A i \in 1..Len(body) : body[i] \in {"0", "1"}

\* !isNaN(parseFloat(val)) && isFinite(Number(val)), for texts without an
\* exponent part and short enough to stay finite
isNumberString(val) == IsDecimal(val) \/ IsRadixLiteral(val)

\* parseFloat: the value of the longest prefix that is a decimal literal
ParseFloat(val) ==
    LET fits == {n \in 1..Len(val) : IsDecimal(SubSeq(val, 1, n))}
        longest == CHOOSE n \in fits : \A k \in fits : k <= n
    IN  DecimalValue(SubSeq(val, 1, longest))

(***************************************************************************)
(* inferAndConvertTypes                                                    *)
(***************************************************************************)
SampleSize == 500

\* String(value)
StringOf(value) ==
    CASE value.kind = "null" -> <<"n", "u", "l", "l">>
      [] value.kind = "undefined" -> <<"u", "n", "d", "e", "f", "i", "n", "e", "d">>
      [] value.kind = "boolean" ->
            IF value.b THEN <<"t", "r", "u", "e">> ELSE <<"f", "a", "l", "s", "e">>
      [] OTHER -> value.txt

\* variant: only null, undefined and the empty string are blank
IsBlankValueUntrimmed(value) ==
    \/ value.kind = "null"
    \/ value.kind = "undefined"
    \/ StringOf(value) = <<>>

\* value === null || value === undefined || String(value).trim() === ''
IsBlankValue(value) ==
    \/ value.kind = "null"
    \/ value.kind = "undefined"
    \/ Trim(StringOf(value)) = <<>>

\* the inner loop over the sample: the three flags when it ends.  A flag is
\* lowered by the first non-blank value its recognizer rejects and never raised
\* again, so it is up at the end iff no non-blank value of the sample is
\* rejected; the break, taken once all three are down, leaves them down.
ScanSample(header, sample) ==
    LET seen == {i \in 1..Len(sample) : ~IsBlankValue(Get(sample[i], header))}
        stringValue(i) == Trim(StringOf(Get(sample[i], header)))
    IN  [bool |-> \A i \in seen : isBooleanString(stringValue(i)),
         int |-> \A i \in seen : isIntegerString(stringValue(i)),
         num |-> \A i \in seen : isNumberString(stringValue(i))]

\* variant: a column is boolean as long as no value of the sample rules it out
ColumnTypeBooleanByDefault(header, sample) ==
    LET flags == ScanSample(header, sample)
    IN  IF flags.bool THEN "boolean"
        ELSE IF flags.int THEN "integer"
        ELSE IF flags.num THEN "number"
        ELSE "string"

ColumnType(header, sample) ==
    LET flags == ScanSample(header, sample)
        some == \E i \in 1..Len(sample) :
                    /\ Get(sample[i], header).kind # "null"
                    /\ Trim(StringOf(Get(sample[i], header))) # <<>>
    IN  IF flags.bool /\ some THEN "boolean"
        ELSE IF flags.int THEN "integer"
        ELSE IF flags.num THEN "number"
        ELSE "string"

\* the loop over the headers: the columnTypes object after the first n of
\* them, as their types in header order
RECURSIVE InferColumnTypes(_, _, _)
InferColumnTypes(headers, sample, n) ==
    IF n = 0 THEN <<>>
    ELSE Append(InferColumnTypes(headers, sample, n - 1), ColumnType(headers[n], sample))

\* columnTypes[header]; a key that is no header has no entry
ColumnTypes(headers, types, header) ==
    IF header \in Range(headers)
    THEN types[CHOOSE j \in 1..Len(headers) : headers[j] = header]
    ELSE "none"

\* variant: a decimal in an integer column is converted as a number
ConvertCellWidening(value, type) ==
    IF IsBlankValue(value) THEN Null
    ELSE LET stringValue == Trim(StringOf(value))
         IN  CASE type = "boolean" /\ isBooleanString(stringValue) -> Bool(toBoolean(stringValue))
               [] type = "integer" /\ isIntegerString(stringValue) -> ParseInt(stringValue)
               [] type \in {"integer", "number"} /\ isNumberString(stringValue) ->
                     ParseFloat(stringValue)
               [] OTHER -> value

ConvertCell(value, type) ==
    IF IsBlankValue(value) THEN Null
    ELSE LET stringValue == Trim(StringOf(value))
         IN  CASE type = "boolean" /\ isBooleanString(stringValue) -> Bool(toBoolean(stringValue))
               [] type = "integer" /\ isIntegerString(stringValue) -> ParseInt(stringValue)
               [] type = "number" /\ isNumberString(stringValue) -> ParseFloat(stringValue)
               [] OTHER -> value

ConvertRow(headers, types, row) ==
    [j \in 1..Len(row) |->
        [k |-> row[j].k, v |-> ConvertCell(row[j].v, ColumnTypes(headers, types, row[j].k))]]

\* variant: the whole dataset is the sample
SampleEverything(data) == data

\* data.slice(0, 500)
Sample(data) == SubSeq(data, 1, IF Len(data) < SampleSize THEN Len(data) ELSE SampleSize)

\* the second pass: data.map over the whole dataset
ConvertRows(headers, types, data) ==
    [i \in 1..Len(data) |-> ConvertRow(headers, types, data[i])]

inferAndConvertTypes(headers, data) ==
    IF Len(data) = 0 THEN <<>>
    ELSE ConvertRows(headers, InferColumnTypes(headers, Sample(data), Len(headers)), data)

(***************************************************************************)
(* Schema unification and consolidation (the tail of processFiles)         *)
(***************************************************************************)
\* variant: the headers are collected in a plain array
SetAddAlways(set, x) == Append(set, x)

\* Set.prototype.add on an insertion-ordered set
SetAdd(set, x) == IF x \in Range(set) THEN set ELSE Append(set, x)

RECURSIVE AddFields(_, _, _)
AddFields(set, fields, n) ==
    IF n = 0 THEN set
    ELSE LET prev == AddFields(set, fields, n - 1)
         IN  IF Truthy(fields[n]) THEN SetAdd(prev, Trim(fields[n])) ELSE prev

RECURSIVE UnifiedHeaders(_, _)
UnifiedHeaders(results, n) ==
    IF n = 0 THEN <<>>
    ELSE AddFields(UnifiedHeaders(results, n - 1), results[n].meta.fields,
                   Len(results[n].meta.fields))

\* variant: a value under the empty key is copied like the others
RECURSIVE TrimmedRowAnyKey(_, _)
TrimmedRowAnyKey(row, n) ==
    IF n = 0 THEN <<>>
    ELSE Put(TrimmedRowAnyKey(row, n - 1), Trim(row[n].k), row[n].v)

RECURSIVE TrimmedRow(_, _)
TrimmedRow(row, n) ==
    IF n = 0 THEN <<>>
    ELSE LET prev == TrimmedRow(row, n - 1)
         IN  IF Truthy(row[n].k) THEN Put(prev, Trim(row[n].k), row[n].v) ELSE prev

\* variant: a header the source row lacks gets no property
RECURSIVE NewRowSparse(_, _, _)
NewRowSparse(unifiedHeaders, trimmedRow, n) ==
    IF n = 0 THEN <<>>
    ELSE LET found == Get(trimmedRow, unifiedHeaders[n])
             prev == NewRowSparse(unifiedHeaders, trimmedRow, n - 1)
         IN  IF found # Undefined THEN Put(prev, unifiedHeaders[n], found) ELSE prev

RECURSIVE NewRow(_, _, _)
NewRow(unifiedHeaders, trimmedRow, n) ==
    IF n = 0 THEN <<>>
    ELSE LET found == Get(trimmedRow, unifiedHeaders[n])
         IN  Put(NewRow(unifiedHeaders, trimmedRow, n - 1), unifiedHeaders[n],
                 IF found # Undefined THEN found ELSE Null)

ConsolidateRow(unifiedHeaders, row) ==
    NewRow(unifiedHeaders, TrimmedRow(row, Len(row)), Len(unifiedHeaders))

\* variant: each result's rows are put in front of the rows collected so far
RECURSIVE ConsolidatedDataReversed(_, _, _)
ConsolidatedDataReversed(unifiedHeaders, results, n) ==
    IF n = 0 THEN <<>>
    ELSE [i \in 1..Len(results[n].data) |-> ConsolidateRow(unifiedHeaders, results[n].data[i])]
         \o ConsolidatedDataReversed(unifiedHeaders, results, n - 1)

RECURSIVE ConsolidatedData(_, _, _)
ConsolidatedData(unifiedHeaders, results, n) ==
    IF n = 0 THEN <<>>
    ELSE ConsolidatedData(unifiedHeaders, results, n - 1)
         \o [i \in 1..Len(results[n].data) |-> ConsolidateRow(unifiedHeaders, results[n].data[i])]

\* the value processFiles returns once the loop over the files has ended
Consolidate(results, notices) ==
    IF Len(results) = 0
    THEN [headers |-> <<>>, data |-> <<>>, errors |-> notices]
    ELSE LET unifiedHeaders == UnifiedHeaders(results, Len(results))
             consolidatedData == ConsolidatedData(unifiedHeaders, results, Len(results))
         IN  [headers |-> unifiedHeaders,
              data |-> inferAndConvertTypes(unifiedHeaders, consolidatedData),
              errors |-> notices]

\* the column types that run of inferAndConvertTypes decided, in header order
ConsolidateTypes(results) ==
    IF Len(results) = 0 THEN <<>>
    ELSE LET unifiedHeaders == UnifiedHeaders(results, Len(results))
             consolidatedData == ConsolidatedData(unifiedHeaders, results, Len(results))
         IN  IF Len(consolidatedData) = 0 THEN <<>>
             ELSE InferColumnTypes(unifiedHeaders, Sample(consolidatedData),
                                   Len(unifiedHeaders))

(***************************************************************************)
(* The files of a batch.                                                   *)
(***************************************************************************)
TextSource(sep, header, lines, quoteErr) ==
    [form |-> "text", sep |-> sep, header |-> header, lines |-> lines,
     quoteErr |-> quoteErr, load |-> "", sheets |-> <<>>]
BlankSource ==
    [form |-> "blank", sep |-> "", header |-> <<>>, lines |-> <<>>,
     quoteErr |-> FALSE, load |-> "", sheets |-> <<>>]
OpaqueSource ==
    [form |-> "opaque", sep |-> "", header |-> <<>>, lines |-> <<>>,
     quoteErr |-> FALSE, load |-> "", sheets |-> <<>>]
Workbook(load, sheets) ==
    [form |-> "workbook", sep |-> "", header |-> <<>>, lines |-> <<>>,
     quoteErr |-> FALSE, load |-> load, sheets |-> sheets]

Cell(key, value) == [k |-> key, v |-> value]

\* A.csv   a;b / 1;2
FileA == [name |-> <<"A", ".", "c", "s", "v">>,
          content |-> TextSource(";", << <<"a">>, <<"b">> >>, << << <<"1">>, <<"2">> >> >>, FALSE)]
\* B.CSV   b,c / 3,4
FileB == [name |-> <<"B", ".", "C", "S", "V">>,
          content |-> TextSource(",", << <<"b">>, <<"c">> >>, << << <<"3">>, <<"4">> >> >>, FALSE)]
\* P.csv   padded, blank and empty header names; the second line is short
\*         and the third one long
FileP == [name |-> <<"P", ".", "c", "s", "v">>,
          content |-> TextSource(",", << <<" ", "b">>, <<" ">>, <<>> >>,
                                 << << <<"Y", "e", "s">>, <<"x">>, <<"7">> >>,
                                    << <<"n", "o">> >>,
                                    << <<"1">>, <<"y">>, <<"7">>, <<"8">> >> >>, FALSE)]
\* H.csv   two header fields that trim to the same name, an empty and a blank
\*         header field, and a line that stops before the blank one
FileH == [name |-> <<"H", ".", "c", "s", "v">>,
          content |-> TextSource(",", << <<"a">>, <<" ", "a">>, <<>>, <<" ">> >>,
                                 << << <<"1">>, <<"2">>, <<"y">> >> >>, FALSE)]
\* E.csv   a header and no data line
FileE == [name |-> <<"E", ".", "c", "s", "v">>,
          content |-> TextSource(";", << <<"e">> >>, <<>>, FALSE)]
\* Q.csv   a header with a quoting fault and no data line
FileQ == [name |-> <<"Q", ".", "c", "s", "v">>,
          content |-> TextSource(",", << <<"q">>, <<"a">> >>, <<>>, TRUE)]
\* X.csv   c|a / 1.5|0x10|9 : one cell too many
FileX == [name |-> <<"X", ".", "c", "s", "v">>,
          content |-> TextSource("|", << <<"c">>, <<"a">> >>,
                                 << << <<"1", ".", "5">>, <<"0", "x", "1", "0">>, <<"9">> >> >>,
                                 FALSE)]
\* Z.csv   nothing but blank lines
FileZ == [name |-> <<"Z", ".", "c", "s", "v">>, content |-> BlankSource]
\* W.xlsx  three sheets, the second one empty
FileW == [name |-> <<"W", ".", "x", "l", "s", "x">>,
          content |-> Workbook("ok",
              << << <<Cell(<<" ", "a">>, Text(<<"0", "0", "7">>)), Cell(<<"w">>, Null)>>,
                    <<Cell(<<" ", "a">>, Text(<<"4", "2">>)), Cell(<<"w">>, Text(<<" ">>))>> >>,
                 <<>>,
                 << <<Cell(<<"b">>, Text(<<"N", "o">>))>> >> >>)]
\* V.xls   two sheets, both empty
FileV == [name |-> <<"V", ".", "x", "l", "s">>, content |-> Workbook("ok", << <<>>, <<>> >>)]
\* K.xlsx  not a workbook
FileK == [name |-> <<"K", ".", "x", "l", "s", "x">>, content |-> Workbook("corrupt", <<>>)]
\* R.xls   the read itself fails
FileR == [name |-> <<"R", ".", "x", "l", "s">>, content |-> Workbook("readerror", <<>>)]
\* O.csv   a text source of unknown content
FileO == [name |-> <<"O", ".", "c", "s", "v">>, content |-> OpaqueSource]

\* N.xlsx  the read ends without a result
FileN == [name |-> <<"N", ".", "x", "l", "s", "x">>, content |-> Workbook("noresult", <<>>)]

\* the files that batches of any length are made of, those met alone or two
\* at a time, and those met alone
Core == {FileA, FileZ, FileW}
Catalog == {FileA, FileB, FileP, FileE, FileZ, FileW, FileK, FileV, FileR, FileN}
Singles == {FileO, FileQ, FileX, FileH}

\* the cell values the generated sheets are filled with: absent, blank, the
\* boolean tokens, integers, decimals, a radix literal, padded and plain text
CellValues ==
    {Null, Text(<<" ">>),
     Text(<<"Y", "e", "s">>), Text(<<"n", "o">>), Text(<<"T", "R", "U", "E">>),
     Text(<<"1">>),
     Text(<<"0", "0", "7">>), Text(<<"-", "5">>), Text(<<" ", "4", "2", " ">>),
     Text(<<"1", ".", "5">>), Text(<<"0", "x", "1", "0">>), Text(<<"x">>)}
LongValues ==
    {Text(<<" ">>), Text(<<"0", "0", "7">>), Text(<<"1", ".", "5">>), Text(<<"x">>)}

\* a sheet of two columns: n, which every row fills, and v with the given values
GeneratedSheet(values) ==
    [i \in 1..Len(values) |-> <<Cell(<<"n">>, Text(<<"7">>)), Cell(<<"v">>, values[i])>>]

\* G.xlsx  one sheet of one to MaxRows rows
ShortBooks ==
    {[name |-> <<"G", ".", "x", "l", "s", "x">>,
      content |-> Workbook("ok", <<GeneratedSheet(values)>>)] :
        values \in UNION {[1..n -> CellValues] : n \in 1..MaxRows}}

\* L.xlsx  one sheet one row longer than the sample: a first row, blanks in v
\*         up to the last row of the sample, that row, and the row after it
LongBooks ==
    {[name |-> <<"L", ".", "x", "l", "s", "x">>,
      content |-> Workbook("ok", <<GeneratedSheet(
          <<first>> \o [i \in 1..(SampleSize - 2) |-> Null] \o <<last, after>>)>>)] :
        first \in LongValues, last \in LongValues, after \in LongValues}

Batches ==
    {<<f>> : f \in Singles \cup ShortBooks \cup LongBooks \cup Catalog}
        \cup {<<f, g>> : f \in Catalog, g \in Catalog}
        \cup UNION {[1..n -> Core] : n \in 1..MaxFiles}

\* the onProgress argument: absent, or a callback (which may throw)
Observers == {"none", "given"}

IsCsv(file) == EndsWith(ToLowerCase(file.name), <<".", "c", "s", "v">>)
IsExcel(file) ==
    \/ EndsWith(ToLowerCase(file.name), <<".", "x", "l", "s", "x">>)
    \/ EndsWith(ToLowerCase(file.name), <<".", "x", "l", "s">>)

(***************************************************************************)
(* validateFiles                                                           *)
(***************************************************************************)
\* a file of the selection, as far as validateFiles looks at it
Candidate(name, size) == [name |-> name, size |-> size]

CandidateNames ==
    {<<"a", ".", "c", "s", "v">>, <<"B", ".", "C", "S", "V">>,
     <<"c", ".", "x", "l", "s", "x">>, <<"d", ".", "X", "l", "s">>,
     <<"e", ".", "t", "x", "t">>, <<"f", ".", "c", "s", "v", ".", "b", "a", "k">>}
CandidateSizes == {0, 5}
CandidateFiles == {Candidate(name, size) : name \in CandidateNames, size \in CandidateSizes}
Selections == UNION {[1..n -> CandidateFiles] : n \in 0..MaxSelected}

UnsupportedType ==
    [fileName |-> <<>>, reason |-> "File is not a supported type (.csv, .xlsx, .xls)."]
EmptyFile ==
    [fileName |-> <<>>, reason |-> "File is empty (0 bytes) and was discarded."]

\* variant: the extension is compared as it is written
HasSupportedTypeExact(file) ==
    \/ EndsWith(file.name, <<".", "c", "s", "v">>)
    \/ EndsWith(file.name, <<".", "x", "l", "s", "x">>)
    \/ EndsWith(file.name, <<".", "x", "l", "s">>)

HasSupportedType(file) ==
    LET lowerCaseName == ToLowerCase(file.name)
    IN  \/ EndsWith(lowerCaseName, <<".", "c", "s", "v">>)
        \/ EndsWith(lowerCaseName, <<".", "x", "l", "s", "x">>)
        \/ EndsWith(lowerCaseName, <<".", "x", "l", "s">>)

\* the loop over fileArray: validFiles and errors after its first n files
RECURSIVE validateFiles(_, _)
validateFiles(fileArray, n) ==
    IF n = 0 THEN [validFiles |-> <<>>, errors |-> <<>>]
    ELSE LET prev == validateFiles(fileArray, n - 1)
             file == fileArray[n]
         IN  IF ~HasSupportedType(file)
             THEN [prev EXCEPT !.errors =
                      Append(@, [UnsupportedType EXCEPT !.fileName = file.name])]
             ELSE IF file.size = 0
             THEN [prev EXCEPT !.errors = Append(@, [EmptyFile EXCEPT !.fileName = file.name])]
             ELSE [prev EXCEPT !.validFiles = Append(@, file)]

(***************************************************************************)
(* processFiles as a state machine.  One run: the loop over the files,     *)
(* with parseCsvFile's search over the grid stepped attempt by attempt.    *)
(***************************************************************************)
VARIABLES
    files,              \* the batch processFiles is called with
    observer,           \* the onProgress argument
    pc,                 \* "top" | "parsing" | "returned" | "rejected"
    index,              \* 1-based position of the current file
    attempt,            \* parseCsvFile: grid combinations tried so far
    bestOverallResult,  \* parseCsvFile: best attempt so far, NoResult for null
    allResults,
    processingErrors,
    returned,           \* the value the promise resolved with
    progressCalls,      \* history: the arguments of each onProgress call
    fileState,          \* history: per-file state of section 4.6
    firstSeen,          \* history: per column count, the first valid attempt with it
    columnTypes,        \* history: the types inferAndConvertTypes decided
    run,                \* the number of the call of processFiles on the batch
    firstReturned,      \* history: the value the first call resolved with
    selected,           \* the FileList validateFiles is called with
    validation,         \* what validateFiles resolved with, once it has
    appHeaders,         \* App state: headers
    appData,            \* App state: data
    appError,           \* App state: error, NoError for null
    appProcessingErrors, \* App state: processingErrors
    isProcessing,       \* App state
    processingProgress, \* App state, NoProgress for null
    changes,            \* the number of selections handleFileChange has handled
    shownFor            \* history: the batch whose result is in headers and data

vars == <<files, observer, pc, index, attempt, bestOverallResult, allResults,
          processingErrors, returned, progressCalls, fileState, firstSeen, columnTypes,
          run, firstReturned, selected, validation, appHeaders, appData, appError,
          appProcessingErrors, isProcessing, processingProgress, changes, shownFor>>

appVars == <<appHeaders, appData, appError, appProcessingErrors, isProcessing, changes,
             shownFor>>

NoError == [set |-> FALSE, message |-> ""]
NoProgress == [set |-> FALSE, currentFile |-> <<>>, processedCount |-> 0, totalCount |-> 0]

\* the App as it is mounted: the initial values of its useState hooks
AppMounted ==
    /\ appHeaders = <<>>
    /\ appData = <<>>
    /\ appError = NoError
    /\ appProcessingErrors = <<>>
    /\ isProcessing = FALSE
    /\ processingProgress = NoProgress
    /\ changes = 0
    /\ shownFor = <<>>

\* the App's onProgress: setProcessingProgress({currentFile, processedCount, totalCount})
onProgress(call) ==
    [set |-> TRUE, currentFile |-> call.fileName, processedCount |-> call.processedCount,
     totalCount |-> call.totalCount]

GridSize == Len(encodingsToTry) * Len(delimitersToTry)

\* the k-th combination of the nested loops, encoding outer, delimiter inner
EncodingOf(k) == encodingsToTry[((k - 1) \div Len(delimitersToTry)) + 1]
DelimiterOf(k) == delimitersToTry[((k - 1) % Len(delimitersToTry)) + 1]

NothingReturned == [headers |-> <<>>, data |-> <<>>, errors |-> <<>>]
NotValidated == [done |-> FALSE, validFiles |-> <<>>, errors |-> <<>>]

Init ==
    /\ files \in Batches
    /\ observer \in Observers
    /\ pc = "top"
    /\ index = 1
    /\ attempt = 0
    /\ bestOverallResult = NoResult
    /\ allResults = <<>>
    /\ processingErrors = <<>>
    /\ returned = NothingReturned
    /\ progressCalls = <<>>
    /\ fileState = [i \in 1..Len(files) |-> "Admitted"]
    /\ firstSeen = {}
    /\ columnTypes = <<>>
    /\ run = 1
    /\ firstReturned = NothingReturned
    /\ selected = <<>>
    /\ validation = NotValidated
    /\ AppMounted

\* variant: the 0-based loop index is reported
ProgressCallZeroBased == [fileName |-> files[index].name, processedCount |-> index - 1,
                          totalCount |-> Len(files)]

ProgressCall == [fileName |-> files[index].name, processedCount |-> index,
                 totalCount |-> Len(files)]

\* head of the loop body: the observer, if any, is told; then the parse starts
StartFile ==
    /\ pc = "top"
    /\ progressCalls' = IF observer # "none" THEN Append(progressCalls, ProgressCall)
                        ELSE progressCalls
    /\ pc' = "parsing"
    /\ attempt' = 0
    /\ bestOverallResult' = NoResult
    /\ firstSeen' = {}
    /\ fileState' = [fileState EXCEPT ![index] = "Parsing"]
    /\ processingProgress' = IF observer # "none" THEN onProgress(ProgressCall)
                             ELSE processingProgress
    /\ UNCHANGED <<files, observer, index, allResults, processingErrors, returned,
                   columnTypes, run, firstReturned>>
    /\ UNCHANGED <<selected, validation>>
    /\ UNCHANGED appVars

\* variant: the observer's exception is caught like a parse failure and the
\* loop goes on
ObserverCaught ==
    /\ pc = "top"
    /\ observer = "given"
    /\ progressCalls' = Append(progressCalls, ProgressCall)
    /\ processingErrors' = Append(processingErrors,
                                  Notice(files[index].name,
                                         Reason("An unknown parsing error occurred.",
                                                <<>>, 0, "", "")))
    /\ fileState' = [fileState EXCEPT ![index] = "Failed"]
    /\ index' = IF index < Len(files) THEN index + 1 ELSE index
    /\ pc' = IF index < Len(files) THEN "top" ELSE "rejected"
    /\ UNCHANGED <<files, observer, attempt, bestOverallResult, allResults, returned,
                   firstSeen, columnTypes, run, firstReturned>>
    /\ UNCHANGED <<selected, validation>>
    /\ UNCHANGED <<appVars, processingProgress>>

\* the observer throws: outside the try block, the call is rejected
ObserverThrows ==
    /\ pc = "top"
    /\ observer = "given"
    /\ progressCalls' = Append(progressCalls, ProgressCall)
    /\ pc' = "rejected"
    /\ UNCHANGED <<files, observer, index, attempt, bestOverallResult, allResults,
                   processingErrors, returned, fileState, firstSeen, columnTypes,
                   run, firstReturned>>
    /\ UNCHANGED <<selected, validation>>
    /\ UNCHANGED <<appVars, processingProgress>>

\* variant: an attempt without columns is not rejected
ValidAttemptAnyColumns(res) == res.status = "complete"

\* an attempt counts when the parser completed with at least one column
ValidAttempt(res) == res.status = "complete" /\ Len(res.meta.fields) > 0

\* variant: an attempt with as many columns replaces the best so far
BetterOrEqual(res, best) ==
    best = NoResult \/ Len(res.meta.fields) >= Len(best.meta.fields)

BetterThan(res, best) ==
    best = NoResult \/ Len(res.meta.fields) > Len(best.meta.fields)

\* one combination of the grid: parse, keep it if it beats the best so far
CsvAttempt ==
    /\ pc = "parsing"
    /\ IsCsv(files[index])
    /\ attempt < GridSize
    /\ \E res \in PapaOutcomes(files[index].content, DelimiterOf(attempt + 1)) :
          /\ bestOverallResult' =
                IF ValidAttempt(res) /\ BetterThan(res, bestOverallResult)
                THEN [res EXCEPT !.meta.encoding = EncodingOf(attempt + 1)]
                ELSE bestOverallResult
          /\ firstSeen' =
                IF /\ res.status = "complete"
                   /\ Len(res.meta.fields) > 0
                   /\ ~\E f \in firstSeen : f.cols = Len(res.meta.fields)
                THEN firstSeen \cup {[cols |-> Len(res.meta.fields), at |-> attempt + 1]}
                ELSE firstSeen
    /\ attempt' = attempt + 1
    /\ UNCHANGED <<files, observer, pc, index, allResults, processingErrors, returned,
                   progressCalls, fileState, columnTypes, run, firstReturned>>
    /\ UNCHANGED <<selected, validation>>
    /\ UNCHANGED <<appVars, processingProgress>>

\* variant: a failure is recorded and raised again
NextFileRethrow(results, notices, state) ==
    /\ allResults' = results
    /\ processingErrors' = notices
    /\ fileState' = [fileState EXCEPT ![index] = state]
    /\ IF state = "Failed"
       THEN pc' = "rejected" /\ index' = index /\ returned' = returned
                             /\ columnTypes' = columnTypes
       ELSE /\ index' = index + 1
            /\ IF index = Len(files)
               THEN /\ pc' = "returned"
                    /\ returned' = Consolidate(results, notices)
                    /\ columnTypes' = ConsolidateTypes(results)
               ELSE pc' = "top" /\ returned' = returned /\ columnTypes' = columnTypes

\* the rest of the loop body after a file's outcome, and after the last file
\* the consolidation and the return
NextFile(results, notices, state) ==
    /\ allResults' = results
    /\ processingErrors' = notices
    /\ fileState' = [fileState EXCEPT ![index] = state]
    /\ index' = index + 1
    /\ IF index = Len(files)
       THEN /\ pc' = "returned"
            /\ returned' = Consolidate(results, notices)
            /\ columnTypes' = ConsolidateTypes(results)
       ELSE pc' = "top" /\ returned' = returned /\ columnTypes' = columnTypes

\* variant: only the first diagnostic is reported
RowNoticesFirstOnly(fileName, errors) ==
    [i \in 1..(IF Len(errors) > 0 THEN 1 ELSE 0) |->
        Notice(fileName, Reason("Line", <<>>, errors[i].row + 2, errors[i].message,
                                errors[i].code))]

RowNotices(fileName, errors) ==
    [i \in 1..Len(errors) |->
        Notice(fileName, Reason("Line", <<>>, errors[i].row + 2, errors[i].message,
                                errors[i].code))]

CouldNotParse(fileName) == ErrorOf(Reason("Could not parse", fileName, 0, "", ""))

\* variant: the notice takes the file name the error message quotes
CaughtNoticeFromError(fileName, error) ==
    Notice(error.message.file,
           IF error.isError THEN error.message
           ELSE Reason("An unknown parsing error occurred.", <<>>, 0, "", ""))

\* the catch block of processFiles
CaughtNotice(fileName, error) ==
    Notice(fileName, IF error.isError THEN error.message
                     ELSE Reason("An unknown parsing error occurred.", <<>>, 0, "", ""))

\* variant: a result is accumulated whether or not it has data rows
KeepResultAlways(result) == TRUE

\* a result is accumulated only when it has data rows
KeepResult(result) == Len(result.data) > 0

\* variant: an empty result is reported whether or not it has diagnostics
EmptyNoticesAlways(fileName, result) ==
    <<Notice(fileName, Reason("File contains no data rows and was skipped.", <<>>, 0, "", ""))>>

\* else if (result.errors.length === 0): an empty result is reported only
\* when the parse has no diagnostics
EmptyNotices(fileName, result) ==
    IF Len(result.errors) = 0
    THEN <<Notice(fileName,
                  Reason("File contains no data rows and was skipped.", <<>>, 0, "", ""))>>
    ELSE <<>>

\* parseCsvFile settles and processFiles handles what it got
CsvSettle ==
    /\ pc = "parsing"
    /\ IsCsv(files[index])
    /\ attempt = GridSize
    /\ LET fileName == files[index].name
           result == bestOverallResult
       IN  IF result # NoResult
           THEN LET withRows == processingErrors \o RowNotices(fileName, result.errors)
                IN  IF KeepResult(result)
                    THEN NextFile(Append(allResults, result), withRows, "Parsed")
                    ELSE NextFile(allResults, withRows \o EmptyNotices(fileName, result),
                                  "Skipped")
           ELSE NextFile(allResults,
                         Append(processingErrors,
                                CaughtNotice(fileName, CouldNotParse(fileName))),
                         "Failed")
    /\ UNCHANGED <<files, observer, attempt, bestOverallResult, progressCalls, firstSeen,
                   run, firstReturned>>
    /\ UNCHANGED <<selected, validation>>
    /\ UNCHANGED <<appVars, processingProgress>>

\* variant: a workbook without data sheets is skipped without a notice
ExcelSettleSilent ==
    /\ pc = "parsing"
    /\ ~IsCsv(files[index])
    /\ IsExcel(files[index])
    /\ LET fileName == files[index].name
           out == ParseExcelFile(files[index])
       IN  IF out.settled = "resolved"
           THEN IF Len(out.results) > 0
                THEN NextFile(allResults \o out.results, processingErrors, "Parsed")
                ELSE NextFile(allResults, processingErrors, "Skipped")
           ELSE NextFile(allResults,
                         Append(processingErrors, CaughtNotice(fileName, out.error)),
                         "Failed")
    /\ UNCHANGED <<files, observer, attempt, bestOverallResult, progressCalls, firstSeen,
                   run, firstReturned>>
    /\ UNCHANGED <<selected, validation>>
    /\ UNCHANGED <<appVars, processingProgress>>

\* parseExcelFile settles and processFiles handles what it got
ExcelSettle ==
    /\ pc = "parsing"
    /\ ~IsCsv(files[index])
    /\ IsExcel(files[index])
    /\ LET fileName == files[index].name
           out == ParseExcelFile(files[index])
       IN  IF out.settled = "resolved"
           THEN IF Len(out.results) > 0
                THEN NextFile(allResults \o out.results, processingErrors, "Parsed")
                ELSE NextFile(allResults,
                              Append(processingErrors, Notice(fileName,
                                  Reason("File contains no sheets with data rows and was skipped.",
                                         <<>>, 0, "", ""))),
                              "Skipped")
           ELSE NextFile(allResults,
                         Append(processingErrors, CaughtNotice(fileName, out.error)),
                         "Failed")
    /\ UNCHANGED <<files, observer, attempt, bestOverallResult, progressCalls, firstSeen,
                   run, firstReturned>>
    /\ UNCHANGED <<selected, validation>>
    /\ UNCHANGED <<appVars, processingProgress>>

\* variant: the results and notices of the call before are kept
LocalsOfCallKept(results, notices) == [allResults |-> results, processingErrors |-> notices]

\* the accumulators a call starts with: they are locals of processFiles, so
\* whatever a call before has left in its own is out of reach
LocalsOfCall(results, notices) == [allResults |-> <<>>, processingErrors |-> <<>>]

\* the batch has no file of unknown content, whose readings are left open
\* attempt by attempt
KnownContent == \A i \in 1..Len(files) : files[i].content.form # "opaque"

\* processFiles is called again on the same, unchanged batch once a call has
\* resolved
CallAgain ==
    /\ pc = "returned"
    /\ run < MaxRuns
    /\ KnownContent
    /\ run' = run + 1
    /\ firstReturned' = IF run = 1 THEN returned ELSE firstReturned
    /\ pc' = "top"
    /\ index' = 1
    /\ attempt' = 0
    /\ bestOverallResult' = NoResult
    /\ allResults' = LocalsOfCall(allResults, processingErrors).allResults
    /\ processingErrors' = LocalsOfCall(allResults, processingErrors).processingErrors
    /\ returned' = NothingReturned
    /\ progressCalls' = <<>>
    /\ fileState' = [i \in 1..Len(files) |-> "Admitted"]
    /\ firstSeen' = {}
    /\ columnTypes' = <<>>
    /\ UNCHANGED <<files, observer>>
    /\ UNCHANGED <<selected, validation>>
    /\ UNCHANGED <<appVars, processingProgress>>

Next ==
    \/ StartFile
    \/ ObserverThrows
    \/ CsvAttempt
    \/ CsvSettle
    \/ ExcelSettle
    \/ CallAgain

Spec == Init /\ [][Next]_vars

(***************************************************************************)
(* validateFiles on a selection, before any file is processed              *)
(***************************************************************************)
InitValidate ==
    /\ selected \in Selections
    /\ validation = NotValidated
    /\ files = <<>>
    /\ observer = "none"
    /\ pc = "top"
    /\ index = 1
    /\ attempt = 0
    /\ bestOverallResult = NoResult
    /\ allResults = <<>>
    /\ processingErrors = <<>>
    /\ returned = NothingReturned
    /\ progressCalls = <<>>
    /\ fileState = <<>>
    /\ firstSeen = {}
    /\ columnTypes = <<>>
    /\ run = 1
    /\ firstReturned = NothingReturned
    /\ AppMounted

Validate ==
    /\ ~validation.done
    /\ LET result == validateFiles(selected, Len(selected))
       IN  validation' = [done |-> TRUE, validFiles |-> result.validFiles,
                          errors |-> result.errors]
    /\ UNCHANGED <<files, observer, pc, index, attempt, bestOverallResult, allResults,
                   processingErrors, returned, progressCalls, fileState, firstSeen,
                   columnTypes, run, firstReturned, selected>>
    /\ UNCHANGED <<appVars, processingProgress>>

NextValidate == Validate

SpecValidate == InitValidate /\ [][NextValidate]_vars

(***************************************************************************)
(* The App around processFiles: handleFileChange, handleProcessFiles and   *)
(* the conditions under which its controls are rendered.  handleFileChange *)
(* awaits validateFiles, which resolves without waiting for anything: its  *)
(* continuation runs before the next event, so the handler is one step.    *)
(* handleProcessFiles awaits processFiles, whose steps are the timer and   *)
(* the parser calls: the run it starts is the state machine above, and any *)
(* event may come between two of its steps.                                *)
(***************************************************************************)
MaxChanges == 3

\* a File as the browser hands it over: name, size and content
AppFile(file, size) == [name |-> file.name, size |-> size, content |-> file.content]

NotesFile == [name |-> <<"e", ".", "t", "x", "t">>, size |-> 5, content |-> BlankSource]

\* what the file input can hand to onFileChange
AppSelections ==
    {<<>>,
     <<AppFile(FileW, 5)>>,
     <<AppFile(FileA, 5)>>,
     <<AppFile(FileV, 5)>>,
     <<AppFile(FileA, 5), AppFile(FileW, 5)>>,
     <<NotesFile, AppFile(FileW, 5)>>,
     <<NotesFile, AppFile(FileZ, 0)>>}

PleaseSelect == [set |-> TRUE, message |-> "Please select at least one valid CSV file to process."]
NoDataConsolidated ==
    [set |-> TRUE,
     message |-> "No data could be consolidated. Please check the file contents and processing notices."]
Initializing(total) ==
    [set |-> TRUE, currentFile |-> "Initializing...", processedCount |-> 0, totalCount |-> total]

\* `"${e.fileName}": ${e.reason}`
Message(e) == <<"\"", e.fileName, "\": ", e.reason>>
Messages(errors) == [i \in 1..Len(errors) |-> Message(errors[i])]

InitApp ==
    /\ files = <<>>
    /\ observer = "given"
    /\ pc = "idle"
    /\ index = 1
    /\ attempt = 0
    /\ bestOverallResult = NoResult
    /\ allResults = <<>>
    /\ processingErrors = <<>>
    /\ returned = NothingReturned
    /\ progressCalls = <<>>
    /\ fileState = <<>>
    /\ firstSeen = {}
    /\ columnTypes = <<>>
    /\ run = 0
    /\ firstReturned = NothingReturned
    /\ selected = <<>>
    /\ validation = NotValidated
    /\ AppMounted

processVars == <<files, observer, pc, index, attempt, bestOverallResult, allResults,
                 processingErrors, returned, progressCalls, fileState, firstSeen,
                 columnTypes, run, firstReturned>>

\* handleFileChange: the state is reset, then the selection is validated
handleFileChange(selectedFiles) ==
    /\ changes < MaxChanges
    /\ changes' = changes + 1
    /\ selected' = selectedFiles
    /\ appData' = <<>>
    /\ appHeaders' = <<>>
    /\ appError' = NoError
    /\ appProcessingErrors' = <<>>
    /\ shownFor' = <<>>
    /\ validation' =
          IF Len(selectedFiles) > 0
          THEN LET result == validateFiles(selectedFiles, Len(selectedFiles))
               IN  [done |-> TRUE, validFiles |-> result.validFiles, errors |-> result.errors]
          ELSE NotValidated
    /\ UNCHANGED <<processVars, isProcessing, processingProgress>>

\* variant: the process button is rendered whatever isProcessing is
ButtonOfferedAlways == TRUE

\* the process button: rendered only while isProcessing is false
ButtonOffered == ~isProcessing

\* variant: the guard comes after setIsProcessing(true)
RejectRequestLate ==
    /\ appError' = PleaseSelect
    /\ isProcessing' = TRUE
    /\ UNCHANGED <<processVars, processingProgress, appProcessingErrors>>

\* if (validFiles.length === 0) { setError(...); return; }
RejectRequest ==
    /\ appError' = PleaseSelect
    /\ UNCHANGED <<processVars, isProcessing, processingProgress, appProcessingErrors>>

\* handleProcessFiles up to its await: the guard, the resets and the call
handleProcessFiles ==
    /\ ButtonOffered
    /\ IF Len(validation.validFiles) = 0
       THEN RejectRequest
       ELSE /\ run < MaxRuns
            /\ isProcessing' = TRUE
            /\ appError' = NoError
            /\ appProcessingErrors' = <<>>
            /\ processingProgress' = Initializing(Len(validation.validFiles))
            /\ files' = validation.validFiles
            /\ pc' = "top"
            /\ index' = 1
            /\ attempt' = 0
            /\ bestOverallResult' = NoResult
            /\ allResults' = <<>>
            /\ processingErrors' = <<>>
            /\ returned' = NothingReturned
            /\ progressCalls' = <<>>
            /\ fileState' = [i \in 1..Len(validation.validFiles) |-> "Admitted"]
            /\ firstSeen' = {}
            /\ columnTypes' = <<>>
            /\ run' = run + 1
            /\ UNCHANGED <<observer, firstReturned>>
    /\ UNCHANGED <<selected, validation, appHeaders, appData, changes, shownFor>>

\* if (newProcessingErrors.length > 0) setProcessingErrors(messages)
NoticesShown(errors, shown) == IF Len(errors) > 0 THEN Messages(errors) ELSE shown

\* variant: an empty result is not reported
ErrorShownNever(data, batch, shown) == shown

\* if (newData.length === 0 && validFiles.length > 0) setError(...)
ErrorShown(data, batch, shown) ==
    IF Len(data) = 0 /\ Len(batch) > 0 THEN NoDataConsolidated ELSE shown

\* processFiles resolved: the rest of the try block, then finally
RunResolves ==
    /\ pc = "returned"
    /\ pc' = "idle"
    /\ appHeaders' = returned.headers
    /\ appData' = returned.data
    /\ shownFor' = files
    /\ appProcessingErrors' = NoticesShown(returned.errors, appProcessingErrors)
    /\ appError' = ErrorShown(returned.data, files, appError)
    /\ isProcessing' = FALSE
    /\ processingProgress' = NoProgress
    /\ UNCHANGED <<files, observer, index, attempt, bestOverallResult, allResults,
                   processingErrors, returned, progressCalls, fileState, firstSeen,
                   columnTypes, run, firstReturned, selected, validation, changes>>

\* processFiles rejected: the catch block, then finally
RunRejects ==
    /\ pc = "rejected"
    /\ pc' = "idle"
    /\ \E message \in {"err.message", "An unknown error occurred during processing."} :
          appError' = [set |-> TRUE, message |-> message]
    /\ appData' = <<>>
    /\ appHeaders' = <<>>
    /\ shownFor' = <<>>
    /\ isProcessing' = FALSE
    /\ processingProgress' = NoProgress
    /\ UNCHANGED <<files, observer, index, attempt, bestOverallResult, allResults,
                   processingErrors, returned, progressCalls, fileState, firstSeen,
                   columnTypes, run, firstReturned, selected, validation, changes,
                   appProcessingErrors>>

FileChange == \E selectedFiles \in AppSelections : handleFileChange(selectedFiles)

NextApp ==
    \/ FileChange
    \/ handleProcessFiles
    \/ RunResolves
    \/ RunRejects
    \/ StartFile
    \/ ObserverThrows
    \/ CsvAttempt
    \/ CsvSettle
    \/ ExcelSettle

SpecApp == InitApp /\ [][NextApp]_vars


(***************************************************************************)
(* Properties                                                              *)
(***************************************************************************)
Terminal == {"Parsed", "Skipped", "Failed"}

\* all the rows of the accumulated results, in accumulation order
RECURSIVE SourceRows(_, _)
SourceRows(results, n) ==
    IF n = 0 THEN <<>> ELSE SourceRows(results, n - 1) \o results[n].data

\* all the field names of the accumulated results, in accumulation order
RECURSIVE SourceFields(_, _)
SourceFields(results, n) ==
    IF n = 0 THEN <<>> ELSE SourceFields(results, n - 1) \o results[n].meta.fields

\* C1: every returned row has exactly the returned headers as its keys, one
\* property per header, whichever source produced the row, after conversion.
C1_RowKeysAreHeaders ==
    pc = "returned" =>
        \A i \in 1..Len(returned.data) :
            /\ KeySet(returned.data[i]) = Range(returned.headers)
            /\ Len(returned.data[i]) = Len(returned.headers)

\* C1 witness: a returned dataset built from two results or more, one source
\* row with the extra-fields key, one source row short of a header, and a
\* converted cell.
C1_Witness ==
    /\ pc = "returned"
    /\ Len(allResults) >= 2
    /\ \E r \in Range(allResults) : \E row \in Range(r.data) : HasKey(row, ParsedExtra)
    /\ \E r \in Range(allResults) : \E row \in Range(r.data) :
          Len(row) < Len(r.meta.fields)
    /\ \E row \in Range(returned.data) : \E c \in Range(row) : c.v.kind = "number"

\* position of the first field that trims to h, walking the results in
\* processing order and each result's fields in its own order
FirstSeenAt(h) ==
    LET all == SourceFields(allResults, Len(allResults))
        hits == {k \in 1..Len(all) : Trim(all[k]) = h}
    IN  CHOOSE k \in hits : \A j \in hits : k <= j

C3_FailureIsContained ==
    /\ [][(pc = "parsing" /\ fileState'[index] = "Failed") =>
            /\ Len(processingErrors') = Len(processingErrors) + 1
            /\ SubSeq(processingErrors', 1, Len(processingErrors)) = processingErrors
            /\ processingErrors'[Len(processingErrors')].fileName = files[index].name
            /\ allResults' = allResults
            /\ pc' # "rejected"
            /\ index' = index + 1
            /\ (index < Len(files) => pc' = "top")]_vars
    /\ [](pc = "returned" => \A i \in 1..Len(files) : fileState[i] \in Terminal)

\* C3 witness: a returned run in which a file failed after a file was parsed
\* and before another was parsed.
C3_Witness ==
    /\ pc = "returned"
    /\ \E i, j \in 1..Len(files) : i < j /\ fileState[i] = "Failed" /\ fileState[j] = "Parsed"
    /\ \E i, j \in 1..Len(files) : i < j /\ fileState[i] = "Parsed" /\ fileState[j] = "Failed"

\* C4: once every file of the batch has failed, the call has returned, with
\* no header, no row, and one notice per file, in file order.
C4_AllFailed ==
    (\A i \in 1..Len(files) : fileState[i] = "Failed") =>
        /\ pc = "returned"
        /\ returned.headers = <<>>
        /\ returned.data = <<>>
        /\ Len(returned.errors) = Len(files)
        /\ \A i \in 1..Len(files) : returned.errors[i].fileName = files[i].name

\* C4 witness: two files or more, of both kinds, all failed.
C4_Witness ==
    /\ Len(files) >= 2
    /\ \A i \in 1..Len(files) : fileState[i] = "Failed"
    /\ \E i, j \in 1..Len(files) : IsCsv(files[i]) /\ IsExcel(files[j])

\* C5: the k-th call of the observer carries (name of file k, k, N); the call
\* for file k is made before that file leaves the admitted state and only
\* after file k-1 has reached a terminal state; at the return there has been
\* one call per file; at most one file is being parsed.
C5_ProgressInOrder ==
    /\ \A k \in 1..Len(progressCalls) :
          /\ progressCalls[k] = [fileName |-> files[k].name, processedCount |-> k,
                                 totalCount |-> Len(files)]
          /\ k > 1 => fileState[k - 1] \in Terminal
    /\ observer # "none" =>
          /\ \A i \in 1..Len(files) : fileState[i] # "Admitted" => Len(progressCalls) >= i
          /\ pc = "returned" => Len(progressCalls) = Len(files)
    /\ observer = "none" => progressCalls = <<>>
    /\ \A i, j \in 1..Len(files) :
          i < j /\ fileState[j] # "Admitted" => fileState[i] \in Terminal

\* C5 witness: a returned run over two files or more with an observer.
C5_Witness ==
    /\ pc = "returned"
    /\ observer # "none"
    /\ Len(files) >= 2
    /\ Len(progressCalls) = Len(files)

\* what a raw value may become under one of the four column types
Conversions(value) ==
    {ConvertCell(value, t) : t \in {"boolean", "integer", "number", "string"}}

\* the output cell derives from the source row: from a value the row holds
\* under a key that trims to the header, or it is null when there is none
DerivesFrom(cell, row, header) ==
    LET keys == {key \in KeySet(row) : key # <<>> /\ Trim(key) = header}
    IN  IF keys = {} THEN cell = Null
        ELSE \E key \in keys : cell \in Conversions(Get(row, key))

\* C6: the returned rows are as many as the rows of the accumulated results
\* together, and the k-th returned row derives, header by header, from the
\* k-th row of their concatenation in accumulation order.
C6_RowsInSourceOrder ==
    (pc = "returned" /\ Len(allResults) > 0) =>
        LET src == SourceRows(allResults, Len(allResults))
        IN  /\ Len(returned.data) = Len(src)
            /\ \A k \in 1..Len(src) : \A h \in Range(returned.headers) :
                  DerivesFrom(Get(returned.data[k], h), src[k], h)

\* C6 witness: three results or more, two of them sheets of one workbook,
\* and four rows or more.
C6_Witness ==
    /\ pc = "returned"
    /\ Len(allResults) >= 3
    /\ Len(returned.data) >= 4
    /\ \E i \in 1..Len(files) : IsExcel(files[i]) /\ fileState[i] = "Parsed"
    /\ \E i \in 1..Len(files) : IsCsv(files[i]) /\ fileState[i] = "Parsed"

\* the parse results a file can be read as: a text source under each
\* delimiter, a workbook sheet by sheet
ReadingsOf(file) ==
    IF file.content.form = "workbook"
    THEN {[fields |-> Keys(file.content.sheets[n][1]), rows |-> Len(file.content.sheets[n])] :
             n \in {m \in 1..Len(file.content.sheets) : Len(file.content.sheets[m]) > 0}}
    ELSE {[fields |-> r.meta.fields, rows |-> Len(r.data)] :
             r \in UNION {PapaOutcomes(file.content, delimitersToTry[d]) :
                             d \in 1..Len(delimitersToTry)}}

\* C7: no accumulated result is without rows, and every returned header is
\* the trimmed name of a field of a reading, of some file of the batch, that
\* has at least one row.
C7_NoHeaderFromEmptySource ==
    /\ \A n \in 1..Len(allResults) : Len(allResults[n].data) > 0
    /\ pc = "returned" =>
          /\ \A h \in Range(returned.headers) :
                \E i \in 1..Len(files) : \E r \in ReadingsOf(files[i]) :
                   /\ r.rows > 0
                   /\ \E f \in Range(r.fields) : Trim(f) = h
          /\ Len(returned.data) = Len(SourceRows(allResults, Len(allResults)))

\* C7 witness: a returned dataset from a batch that also held a text source
\* with a header and no row, and a workbook with an empty sheet.
C7_Witness ==
    /\ pc = "returned"
    /\ Len(returned.headers) > 0
    /\ \E i \in 1..Len(files) :
          /\ files[i].content.form = "text"
          /\ files[i].content.lines = <<>>
          /\ fileState[i] = "Skipped"
    /\ \E i \in 1..Len(files) :
          /\ files[i].content.form = "workbook"
          /\ fileState[i] = "Parsed"
          /\ \E n \in 1..Len(files[i].content.sheets) : files[i].content.sheets[n] = <<>>

\* the attempt (grid position) that bestOverallResult comes from
BestAt(k) ==
    /\ bestOverallResult.meta.encoding = EncodingOf(k)
    /\ bestOverallResult.meta.delimiter = DelimiterOf(k)

\* C8: during and after the search, the best result is that of the first
\* attempt, in enumeration order, among the valid attempts made so far with
\* the greatest column count; and a text source written with one separator
\* and two header cells or more ends up read with that separator.
C8_BestIsFirstWidest ==
    (pc = "parsing" /\ IsCsv(files[index])) =>
        /\ firstSeen = {} <=> bestOverallResult = NoResult
        /\ firstSeen # {} =>
              LET top == CHOOSE f \in firstSeen : \A g \in firstSeen : g.cols <= f.cols
              IN  /\ Len(bestOverallResult.meta.fields) = top.cols
                  /\ BestAt(top.at)
        /\ (/\ attempt = GridSize
            /\ files[index].content.form = "text"
            /\ Len(files[index].content.header) >= 2) =>
              /\ bestOverallResult.meta.delimiter = files[index].content.sep
              /\ bestOverallResult.meta.fields = files[index].content.header

\* C8 witness: a finished search whose winner comes from a later encoding
\* than the first, after a valid attempt with fewer columns.
C8_Witness ==
    /\ pc = "parsing"
    /\ IsCsv(files[index])
    /\ attempt = GridSize
    /\ Cardinality(firstSeen) >= 2
    /\ bestOverallResult.meta.encoding = "windows-1252"
    /\ bestOverallResult.meta.delimiter = ","

\* C9: a text file settles only once all combinations have been tried, and
\* it ends as failed iff no attempt was valid; the notice then carries the
\* could-not-parse message naming the file.
C9_FailsIffNoValidAttempt ==
    (pc \in {"top", "returned"} /\ index > 1 /\ IsCsv(files[index - 1])) =>
        /\ attempt = GridSize
        /\ fileState[index - 1] = "Failed" <=> firstSeen = {}
        /\ fileState[index - 1] = "Failed" =>
              processingErrors[Len(processingErrors)] =
                 Notice(files[index - 1].name,
                        Reason("Could not parse", files[index - 1].name, 0, "", ""))

\* C9 witness: a text file parsed although its first attempts were invalid.
C9_Witness ==
    /\ pc = "returned"
    /\ Len(files) = 1
    /\ IsCsv(files[1])
    /\ fileState[1] = "Parsed"
    /\ \A f \in firstSeen : f.at >= 6

\* C10: when a text file settles with a selected attempt that has k >= 1
\* diagnostics and at least one row, the step appends exactly k notices, all
\* bearing the file's name, one per diagnostic in order, marks the file
\* parsed and appends the selected attempt, with all its rows, to the results.
C10_DiagnosticsAreNotices ==
    [][(/\ pc = "parsing"
        /\ IsCsv(files[index])
        /\ attempt = GridSize
        /\ bestOverallResult # NoResult
        /\ Len(bestOverallResult.errors) >= 1
        /\ Len(bestOverallResult.data) >= 1
        /\ index' = index + 1) =>
          LET k == Len(bestOverallResult.errors)
              before == Len(processingErrors)
          IN  /\ Len(processingErrors') = before + k
              /\ SubSeq(processingErrors', 1, before) = processingErrors
              /\ \A j \in 1..k :
                    /\ processingErrors'[before + j].fileName = files[index].name
                    /\ processingErrors'[before + j].reason.code = bestOverallResult.errors[j].code
                    /\ processingErrors'[before + j].reason.line = bestOverallResult.errors[j].row + 2
              /\ fileState'[index] = "Parsed"
              /\ allResults' = Append(allResults, bestOverallResult)]_vars

\* C10 witness: a parsed text file that left two diagnostics notices and
\* three rows.
C10_Witness ==
    /\ pc = "returned"
    /\ Len(files) = 1
    /\ fileState[1] = "Parsed"
    /\ Len(allResults[1].errors) = 2
    /\ Len(processingErrors) = 2
    /\ Len(returned.data) = 3

\* the sheets of a workbook that have a data row, and the j-th of them
NonEmptySheets(sheets) == {n \in 1..Len(sheets) : Len(sheets[n]) > 0}
NthNonEmptySheet(sheets, j) ==
    CHOOSE n \in NonEmptySheets(sheets) :
        Cardinality({m \in NonEmptySheets(sheets) : m < n}) = j - 1

\* the step in which a workbook file leaves the parser
WorkbookStep ==
    /\ pc = "parsing"
    /\ ~IsCsv(files[index])
    /\ IsExcel(files[index])
    /\ pc' # "parsing"

\* C11: a workbook that can be read contributes one result per sheet that has
\* at least one data row, in sheet order: the j-th result has the rows of the
\* j-th non-empty sheet and the trimmed keys of its first row as fields.  A
\* sheet without rows contributes nothing, and no notice is recorded for it.
C11_OneResultPerNonEmptySheet ==
    [][(WorkbookStep /\ files[index].content.load = "ok") =>
          LET sheets == files[index].content.sheets
              k == Cardinality(NonEmptySheets(sheets))
              before == Len(allResults)
          IN  /\ Len(allResults') = before + k
              /\ SubSeq(allResults', 1, before) = allResults
              /\ \A j \in 1..k :
                    LET sheet == sheets[NthNonEmptySheet(sheets, j)]
                        result == allResults'[before + j]
                    IN  /\ Len(result.data) = Len(sheet)
                        /\ result.meta.fields =
                              [c \in 1..Len(sheet[1]) |-> Trim(sheet[1][c].k)]
                        /\ \A i \in 1..Len(sheet) : \A c \in 1..Len(sheet[i]) :
                              Get(result.data[i], Trim(sheet[i][c].k)) = sheet[i][c].v
              /\ (k > 0 => processingErrors' = processingErrors)]_vars

\* C11 witness: a workbook of three sheets, the second one empty, was read:
\* two results and no notice.
C11_Witness ==
    /\ pc = "returned"
    /\ Len(files) = 1
    /\ files[1].content.load = "ok"
    /\ Len(files[1].content.sheets) = 3
    /\ NonEmptySheets(files[1].content.sheets) = {1, 3}
    /\ Len(allResults) = 2
    /\ processingErrors = <<>>

\* the notice texts of a failure and of a workbook without data
FailureTexts == {"Failed to parse", "An unknown parsing error occurred."}
NoSheetsText == "File contains no sheets with data rows and was skipped."

\* C12: a workbook that cannot be opened or decoded leaves exactly one failure
\* notice for the file, a workbook whose sheets are all empty leaves exactly
\* one 'no data' notice for it, and in both cases no result is added.
C12_WorkbookWithoutData ==
    [][WorkbookStep =>
          LET file == files[index]
              before == Len(processingErrors)
              added == processingErrors'[before + 1]
              oneNotice ==
                  /\ Len(processingErrors') = before + 1
                  /\ SubSeq(processingErrors', 1, before) = processingErrors
                  /\ added.fileName = file.name
                  /\ allResults' = allResults
          IN  /\ file.content.load \in {"corrupt", "readerror"} =>
                    /\ oneNotice
                    /\ added.reason.text \in FailureTexts
                    /\ fileState'[index] = "Failed"
              /\ (/\ file.content.load = "ok"
                  /\ NonEmptySheets(file.content.sheets) = {}) =>
                    /\ oneNotice
                    /\ added.reason.text = NoSheetsText
                    /\ fileState'[index] = "Skipped"]_vars

\* C12 witness: a workbook that could not be decoded and one with two empty
\* sheets were processed: two notices and no result.
C12_Witness ==
    /\ pc = "returned"
    /\ Len(files) = 2
    /\ files[1].content.load = "corrupt"
    /\ files[2].content.load = "ok"
    /\ Len(files[2].content.sheets) = 2
    /\ fileState = <<"Failed", "Skipped">>
    /\ Len(processingErrors) = 2
    /\ processingErrors[1].reason.text \in FailureTexts
    /\ processingErrors[2].reason.text = NoSheetsText
    /\ allResults = <<>>

\* an input cell that is null, absent, empty or made of white space only
BlankInput(value) ==
    \/ value.kind \in {"null", "undefined"}
    \/ \A i \in 1..Len(StringOf(value)) : StringOf(value)[i] \in WhiteSpace

\* the value a source row holds for a header: the one under the last of its
\* keys that trim to the header, null when it has none
RawCell(row, header) ==
    LET at == {j \in 1..Len(row) : row[j].k # <<>> /\ Trim(row[j].k) = header}
    IN  IF at = {} THEN Null ELSE row[CHOOSE j \in at : \A i \in at : i <= j].v

\* the first rows of the source rows, up to the sample size
FirstRows(src) == SubSeq(src, 1, IF Len(src) < SampleSize THEN Len(src) ELSE SampleSize)

\* the trimmed texts of the non-empty values the rows hold for a header
NonEmptyTexts(rows, header) ==
    {Trim(StringOf(RawCell(rows[k], header))) :
        k \in {i \in 1..Len(rows) : ~BlankInput(RawCell(rows[i], header))}}

\* the candidates by preference, and whether a text eliminates one
Candidates == <<"boolean", "integer", "number">>
Recognizes(type, text) ==
    CASE type = "boolean" -> isBooleanString(text)
      [] type = "integer" -> isIntegerString(text)
      [] type = "number" -> isNumberString(text)
      [] OTHER -> FALSE

\* the highest-preference candidate that no text eliminates, boolean only with
\* a text at all; string when every candidate is eliminated
PreferredType(texts) ==
    LET surviving == {c \in 1..Len(Candidates) :
                         /\ \A t \in texts : Recognizes(Candidates[c], t)
                         /\ (Candidates[c] = "boolean" => texts # {})}
    IN  IF surviving = {} THEN "string"
        ELSE Candidates[CHOOSE c \in surviving : \A d \in surviving : c <= d]

TypesArePreferred(src) ==
    /\ Len(columnTypes) = Len(returned.headers)
    /\ \A j \in 1..Len(returned.headers) :
          columnTypes[j] = PreferredType(NonEmptyTexts(FirstRows(src), returned.headers[j]))

\* C13: the type chosen for a column is the first of boolean, integer, number
\* that no non-empty sampled value of the column eliminates, string when all
\* three are eliminated; empty values eliminate nothing, and boolean is chosen
\* only when the sample has a non-empty value in the column.
C13_TypeIsPreferredSurvivor ==
    (pc = "returned" /\ Len(returned.data) > 0) =>
        TypesArePreferred(SourceRows(allResults, Len(allResults)))

\* C13 witness: a returned dataset with a column that is empty throughout and
\* typed integer, and a column with empty and non-empty values typed boolean.
C13_Witness ==
    /\ pc = "returned"
    /\ Len(returned.data) > 0
    /\ Len(columnTypes) = Len(returned.headers)
    /\ LET src == SourceRows(allResults, Len(allResults))
       IN  /\ \E j \in 1..Len(columnTypes) :
                /\ columnTypes[j] = "integer"
                /\ NonEmptyTexts(src, returned.headers[j]) = {}
           /\ \E j \in 1..Len(columnTypes) :
                /\ columnTypes[j] = "boolean"
                /\ \E k \in 1..Len(src) : BlankInput(RawCell(src[k], returned.headers[j]))

\* the boolean tokens, in lower case
TrueTokens == {<<"t", "r", "u", "e">>, <<"y", "e", "s">>, <<"1">>}
FalseTokens == {<<"f", "a", "l", "s", "e">>, <<"n", "o">>, <<"0">>}

\* the columns whose non-empty sampled values are all boolean tokens, with one
\* such value at least
BooleanColumns(src) ==
    {j \in 1..Len(returned.headers) :
        LET texts == NonEmptyTexts(FirstRows(src), returned.headers[j])
        IN  /\ texts # {}
            /\ \A t \in texts : ToLowerCase(t) \in TrueTokens \cup FalseTokens}

BooleanColumnsConvert(src) ==
    \A j \in BooleanColumns(src) :
        /\ columnTypes[j] = "boolean"
        /\ \A k \in 1..Len(src) :
              LET raw == RawCell(src[k], returned.headers[j])
                  out == Get(returned.data[k], returned.headers[j])
                  token == ToLowerCase(Trim(StringOf(raw)))
              IN  /\ BlankInput(raw) => out = Null
                  /\ (~BlankInput(raw) /\ token \in TrueTokens) => out = Bool(TRUE)
                  /\ (~BlankInput(raw) /\ token \in FalseTokens) => out = Bool(FALSE)

\* C14: a column whose non-empty sampled values are all boolean tokens is typed
\* boolean; in it a cell reading true, yes or 1 in any letter case becomes
\* true, a cell reading false, no or 0 becomes false, and an empty cell
\* becomes null, never false.
C14_BooleanColumn ==
    (pc = "returned" /\ Len(returned.data) > 0) =>
        BooleanColumnsConvert(SourceRows(allResults, Len(allResults)))

\* C14 witness: a column of boolean tokens with a word for true, the digit 1,
\* a token for false and an empty cell, returned as true, true, false, null.
C14_Witness ==
    /\ pc = "returned"
    /\ Len(returned.data) > 0
    /\ LET src == SourceRows(allResults, Len(allResults))
       IN  \E j \in BooleanColumns(src) :
              LET raw(k) == RawCell(src[k], returned.headers[j])
                  out(k) == Get(returned.data[k], returned.headers[j])
              IN  /\ \E k \in 1..Len(src) :
                        raw(k) = Text(<<"Y", "e", "s">>) /\ out(k) = Bool(TRUE)
                  /\ \E k \in 1..Len(src) : raw(k) = Text(<<"1">>) /\ out(k) = Bool(TRUE)
                  /\ \E k \in 1..Len(src) :
                        /\ ~BlankInput(raw(k))
                        /\ ToLowerCase(Trim(StringOf(raw(k)))) \in FalseTokens
                        /\ out(k) = Bool(FALSE)
                  /\ \E k \in 1..Len(src) : BlankInput(raw(k)) /\ out(k) = Null

\* the kind of value a converted cell of a column type has
ConvertedKind(type) == IF type = "boolean" THEN "boolean" ELSE "number"

CellsConvertOnTheirOwn(src) ==
    /\ Len(returned.data) = Len(src)
    /\ \A k \in 1..Len(src) : \A j \in 1..Len(returned.headers) :
          LET raw == RawCell(src[k], returned.headers[j])
              out == Get(returned.data[k], returned.headers[j])
          IN  ~BlankInput(raw) =>
                 IF Recognizes(columnTypes[j], Trim(StringOf(raw)))
                 THEN out.kind = ConvertedKind(columnTypes[j])
                 ELSE out = raw

\* C15: the conversion covers every row, and a non-blank cell is converted
\* only if its own trimmed value matches the recognizer of its column's type;
\* a cell that does not match keeps its original text, whatever the type the
\* column has.
C15_CellConvertedOnlyIfItMatches ==
    (pc = "returned" /\ Len(returned.data) > 0) =>
        CellsConvertOnTheirOwn(SourceRows(allResults, Len(allResults)))

\* C15 witness: a column typed integer from its sample holds a decimal in the
\* row after the sample, returned as the text it was, and an integer in the
\* sample, returned as a number.
C15_Witness ==
    /\ pc = "returned"
    /\ Len(returned.data) = SampleSize + 1
    /\ \E j \in 1..Len(columnTypes) :
          /\ columnTypes[j] = "integer"
          /\ Get(returned.data[SampleSize + 1], returned.headers[j])
                = Text(<<"1", ".", "5">>)
          /\ Get(returned.data[1], returned.headers[j]) = Num(7, 0)

NoBlankText(src) ==
    \A k \in 1..Len(returned.data) : \A j \in 1..Len(returned.data[k]) :
        LET out == returned.data[k][j].v
        IN  /\ out.kind = "string" =>
                  \E i \in 1..Len(out.txt) : out.txt[i] \notin WhiteSpace
            /\ BlankInput(RawCell(src[k], returned.data[k][j].k)) => out = Null

\* C16: in the returned rows no cell of any column, sampled or not, is an
\* empty or whitespace-only string: every blank, null or whitespace-only
\* input cell is null.
C16_BlankCellsAreNull ==
    (pc = "returned" /\ Len(returned.data) > 0) =>
        NoBlankText(SourceRows(allResults, Len(allResults)))

\* C16 witness: a column typed string with a whitespace-only cell in the
\* sample and one in the row after the sample, both returned as null.
C16_Witness ==
    /\ pc = "returned"
    /\ Len(returned.data) = SampleSize + 1
    /\ LET src == SourceRows(allResults, Len(allResults))
       IN  \E j \in 1..Len(columnTypes) :
              /\ columnTypes[j] = "string"
              /\ \A k \in {1, SampleSize + 1} :
                    /\ RawCell(src[k], returned.headers[j]) = Text(<<" ">>)
                    /\ Get(returned.data[k], returned.headers[j]) = Null

\* the workbooks longer than the sample whose first rows, up to the sample
\* size, are those of the given rows
SameFirstRows(rows) ==
    {book \in LongBooks : FirstRows(book.content.sheets[1]) = FirstRows(rows)}

\* the column types a workbook processed alone gets
TypesOfBook(book) == ConsolidateTypes(ParseExcelFile(book).results)

LaterRowsDoNotDecide(rows) ==
    /\ \A book \in SameFirstRows(rows) : TypesOfBook(book) = columnTypes
    /\ \A k \in (SampleSize + 1)..Len(rows) : \A j \in 1..Len(returned.headers) :
          LET raw == RawCell(rows[k], returned.headers[j])
              out == Get(returned.data[k], returned.headers[j])
          IN  /\ BlankInput(raw) => out = Null
              /\ (~BlankInput(raw) /\ Recognizes(columnTypes[j], Trim(StringOf(raw)))) =>
                    out.kind = ConvertedKind(columnTypes[j])

\* C17: the column types are decided by the first 500 rows alone: every
\* dataset with the same first 500 rows gets the same types whatever its later
\* rows hold, and the rows after the 500th are converted like the others.
C17_TypesFromSampleOnly ==
    (/\ pc = "returned"
     /\ Len(files) = 1
     /\ files[1] \in LongBooks) =>
        LaterRowsDoNotDecide(files[1].content.sheets[1])

\* C17 witness: a dataset of 501 rows typed integer in a column whose 501st
\* row holds an integer, returned as a number, while a dataset with the same
\* first 500 rows holds a text there.
C17_Witness ==
    /\ pc = "returned"
    /\ Len(files) = 1
    /\ files[1] \in LongBooks
    /\ Len(returned.data) = SampleSize + 1
    /\ columnTypes = <<"integer", "integer">>
    /\ Get(returned.data[SampleSize + 1], <<"v">>) = Num(7, 0)
    /\ \E book \in SameFirstRows(files[1].content.sheets[1]) :
          Get(book.content.sheets[1][SampleSize + 1], <<"v">>) = Text(<<"x">>)

\* the value a returned cell has for a source value in a column of a type
ConvertedFrom(out, raw, type) ==
    IF BlankInput(raw) THEN out = Null
    ELSE IF Recognizes(type, Trim(StringOf(raw))) THEN out.kind = ConvertedKind(type)
    ELSE out = raw

\* the sources of the example: A with headers a, b and the row a = "1",
\* b = "2", then B with headers b, c and the row b = "3", c = "4"
ExampleSources ==
    /\ Len(allResults) = 2
    /\ allResults[1].meta.fields = << <<"a">>, <<"b">> >>
    /\ allResults[1].data = << <<Cell(<<"a">>, Text(<<"1">>)), Cell(<<"b">>, Text(<<"2">>))>> >>
    /\ allResults[2].meta.fields = << <<"b">>, <<"c">> >>
    /\ allResults[2].data = << <<Cell(<<"b">>, Text(<<"3">>)), Cell(<<"c">>, Text(<<"4">>))>> >>

ExampleRows(a) ==
    << <<Cell(<<"a">>, a), Cell(<<"b">>, Num(2, 0)), Cell(<<"c">>, Null)>>,
       <<Cell(<<"a">>, Null), Cell(<<"b">>, Num(3, 0)), Cell(<<"c">>, Num(4, 0))>> >>

\* the claim as stated: the value derives from the value under a key that
\* trims to the header whenever the row has such a key, and the example's
\* column a is returned as the integer 1
ValuesDeriveFromAnyKey(src) ==
    \A k \in 1..Len(src) : \A j \in 1..Len(returned.headers) :
        LET h == returned.headers[j]
            keys == {key \in KeySet(src[k]) : Trim(key) = h}
            out == Get(returned.data[k], h)
        IN  IF keys = {} THEN out = Null
            ELSE \E key \in keys : ConvertedFrom(out, Get(src[k], key), columnTypes[j])

C18_AsStated ==
    (pc = "returned" /\ Len(returned.data) > 0) =>
        /\ ValuesDeriveFromAnyKey(SourceRows(allResults, Len(allResults)))
        /\ ExampleSources =>
              /\ returned.headers = << <<"a">>, <<"b">>, <<"c">> >>
              /\ returned.data = ExampleRows(Num(1, 0))

ValuesDeriveFromLastKey(src) ==
    /\ Len(returned.data) = Len(src)
    /\ \A k \in 1..Len(src) : \A j \in 1..Len(returned.headers) :
          ConvertedFrom(Get(returned.data[k], returned.headers[j]),
                        RawCell(src[k], returned.headers[j]), columnTypes[j])

\* C18: for each returned row and header h, the value derives from the source
\* row's value under the last of its non-empty keys that trim to h, and it is
\* null when the row has no such key; the sources A (headers a, b; row "1",
\* "2") then B (headers b, c; row "3", "4") give the headers a, b, c and the
\* rows {a: true, b: 2, c: null} and {a: null, b: 3, c: 4}, column a being
\* typed boolean since its only value is the token 1.
C18_ValueFromTrimmedKey ==
    (pc = "returned" /\ Len(returned.data) > 0) =>
        /\ ValuesDeriveFromLastKey(SourceRows(allResults, Len(allResults)))
        /\ ExampleSources =>
              /\ returned.headers = << <<"a">>, <<"b">>, <<"c">> >>
              /\ returned.data = ExampleRows(Bool(TRUE))

\* C18 witness: the sources of the example were consolidated, and the row of
\* B has null for the header a that only A has.
C18_Witness ==
    /\ pc = "returned"
    /\ ExampleSources
    /\ Len(returned.data) = 2
    /\ Get(returned.data[1], <<"a">>) = Bool(TRUE)
    /\ Get(returned.data[2], <<"a">>) = Null

Extensions == {<<".", "c", "s", "v">>, <<".", "x", "l", "s", "x">>, <<".", "x", "l", "s">>}
Discarded(file) ==
    \/ \A ext \in Extensions : ~EndsWith(ToLowerCase(file.name), ext)
    \/ file.size = 0
Admitted(file) == ~Discarded(file)

\* C20: validateFiles partitions its input: validFiles are the candidates that
\* are not discarded, errors name the discarded ones with a reason each, both
\* in the order of the input, so that every candidate is in exactly one of
\* them; a candidate is discarded iff its lowercased name ends in none of
\* .csv, .xlsx, .xls or its size is 0.
C20_ValidationPartitions ==
    validation.done =>
        LET discarded == SelectSeq(selected, Discarded)
        IN  /\ validation.validFiles = SelectSeq(selected, Admitted)
            /\ Len(validation.errors) = Len(discarded)
            /\ \A i \in 1..Len(discarded) :
                  /\ validation.errors[i].fileName = discarded[i].name
                  /\ validation.errors[i].reason # ""
            /\ Len(validation.validFiles) + Len(validation.errors) = Len(selected)

\* C20 witness: of three candidates the first has an unsupported extension,
\* the second an upper-case one and bytes, the third no bytes: one admitted,
\* two discarded in input order with different reasons.
C20_Witness ==
    /\ validation.done
    /\ Len(selected) = 3
    /\ Len(validation.validFiles) = 1
    /\ validation.validFiles[1] = selected[2]
    /\ validation.validFiles[1].name # ToLowerCase(validation.validFiles[1].name)
    /\ Len(validation.errors) = 2
    /\ validation.errors[1].fileName = selected[1].name
    /\ validation.errors[2].fileName = selected[3].name
    /\ validation.errors[1].reason = UnsupportedType.reason
    /\ validation.errors[2].reason = EmptyFile.reason

\* an optional minus and then digits only
IntegerText(text) ==
    LET body == IF text # <<>> /\ text[1] = "-" THEN SubSeq(text, 2, Len(text)) ELSE text
    IN  body # <<>> /\ \A i \in 1..Len(body) : body[i] \in Range(Digits)

\* the integer texts of the inputs and the integers they denote in base 10
IntegerReadings ==
    {<<<<"0", "0", "7">>, 7>>, <<<<"4", "2">>, 42>>, <<<<"-", "5">>, 0 - 5>>,
     <<<<"1">>, 1>>, <<<<"2">>, 2>>, <<<<"3">>, 3>>, <<<<"4">>, 4>>, <<<<"7">>, 7>>,
     <<<<"9">>, 9>>}

IntegerColumnsConvert(src) ==
    \A j \in 1..Len(returned.headers) :
        LET texts == NonEmptyTexts(FirstRows(src), returned.headers[j])
        IN  /\ (/\ \A t \in texts : IntegerText(t)
                /\ \E t \in texts : ToLowerCase(t) \notin TrueTokens \cup FalseTokens) =>
                  columnTypes[j] = "integer"
            /\ columnTypes[j] = "integer" =>
                  \A k \in 1..Len(src) :
                      LET raw == RawCell(src[k], returned.headers[j])
                          out == Get(returned.data[k], returned.headers[j])
                      IN  (~BlankInput(raw) /\ IntegerText(Trim(StringOf(raw)))) =>
                              /\ out.kind = "number"
                              /\ out.s = 0
                              /\ \A r \in IntegerReadings :
                                    Trim(StringOf(raw)) = r[1] => out.m = r[2]

\* C21: a column whose sampled values are integer texts such as "007" and
\* "42" is typed integer, and its cells convert to the integers the texts
\* denote in base 10, leading zeros included: 7 and 42.
C21_IntegerColumn ==
    (pc = "returned" /\ Len(returned.data) > 0) =>
        IntegerColumnsConvert(SourceRows(allResults, Len(allResults)))

\* C21 witness: a column with the values "007" and "42", typed integer and
\* returned as 7 and 42.
C21_Witness ==
    /\ pc = "returned"
    /\ Len(returned.data) > 0
    /\ LET src == SourceRows(allResults, Len(allResults))
       IN  \E j \in 1..Len(columnTypes) :
              /\ columnTypes[j] = "integer"
              /\ \E k \in 1..Len(src) :
                    /\ RawCell(src[k], returned.headers[j]) = Text(<<"0", "0", "7">>)
                    /\ Get(returned.data[k], returned.headers[j]) = Num(7, 0)
              /\ \E k \in 1..Len(src) :
                    /\ RawCell(src[k], returned.headers[j]) = Text(<<"4", "2">>)
                    /\ Get(returned.data[k], returned.headers[j]) = Num(42, 0)

\* a finite base-10 decimal: an optional sign, digits and at most one point
DecimalText(text) ==
    LET body == IF text # <<>> /\ text[1] \in {"-", "+"} THEN SubSeq(text, 2, Len(text))
                ELSE text
    IN  /\ \E i \in 1..Len(body) : body[i] \in Range(Digits)
        /\ \A i \in 1..Len(body) : body[i] \in Range(Digits) \cup {"."}
        /\ Cardinality({i \in 1..Len(body) : body[i] = "."}) <= 1

\* the decimal texts of the inputs and the numbers they denote
DecimalReadings ==
    {<<<<"1", ".", "5">>, Num(15, 1)>>, <<<<"0", "0", "7">>, Num(7, 0)>>,
     <<<<"4", "2">>, Num(42, 0)>>, <<<<"-", "5">>, Num(0 - 5, 0)>>,
     <<<<"9">>, Num(9, 0)>>, <<<<"1">>, Num(1, 0)>>, <<<<"7">>, Num(7, 0)>>}

NumberColumnsAreDecimal(src) ==
    \A j \in 1..Len(returned.headers) :
        columnTypes[j] = "number" =>
            /\ \A t \in NonEmptyTexts(FirstRows(src), returned.headers[j]) : DecimalText(t)
            /\ \A k \in 1..Len(src) :
                  LET raw == RawCell(src[k], returned.headers[j])
                      out == Get(returned.data[k], returned.headers[j])
                  IN  out.kind = "number" =>
                          \E r \in DecimalReadings :
                              Trim(StringOf(raw)) = r[1] /\ out = r[2]

\* C22: every non-empty sampled value that is not a finite base-10 decimal,
\* such as "0x10", eliminates the number candidate, so a cell converted
\* under type number is exactly the number its decimal text denotes.
C22_AsStated ==
    (pc = "returned" /\ Len(returned.data) > 0) =>
        NumberColumnsAreDecimal(SourceRows(allResults, Len(allResults)))

\* the case that refutes C22: a column holding "0x10" is typed number and
\* the cell is returned as 0
C22_HexReadAsZero ==
    /\ pc = "returned"
    /\ Len(returned.data) > 0
    /\ LET src == SourceRows(allResults, Len(allResults))
       IN  \E j \in 1..Len(columnTypes) : \E k \in 1..Len(src) :
              /\ columnTypes[j] = "number"
              /\ RawCell(src[k], returned.headers[j]) = Text(<<"0", "x", "1", "0">>)
              /\ Get(returned.data[k], returned.headers[j]) = Num(0, 0)

BlankName(name) == Trim(name) = <<>>

\* C25: the unified headers never contain a blank name: a field name that is
\* empty or whitespace-only is skipped, for text sources and workbook sheets
\* alike.
C25_AsStated ==
    pc = "returned" => \A j \in 1..Len(returned.headers) : ~BlankName(returned.headers[j])

\* the case that refutes C25: a text source with a whitespace-only header
\* field puts the empty name among the unified headers
C25_BlankNameKept ==
    /\ pc = "returned"
    /\ \E i \in 1..Len(allResults) : \E f \in Range(allResults[i].meta.fields) :
          f # <<>> /\ BlankName(f)
    /\ \E j \in 1..Len(returned.headers) : returned.headers[j] = <<>>

\* workbook sheets alone never give a blank name
C25_SheetsOnly ==
    (pc = "returned" /\ \A i \in 1..Len(files) : IsExcel(files[i])) =>
        \A j \in 1..Len(returned.headers) : ~BlankName(returned.headers[j])

NoRowsText == "File contains no data rows and was skipped."

NoticesOf(fileName) == {n \in Range(processingErrors) : n.fileName = fileName}

\* C26 as stated: every text source whose selected parse has a header and no
\* data rows gets a 'no data rows' notice, whether or not the parse carries
\* row diagnostics.
C26_AsStated ==
    \A i \in 1..Len(files) :
        (IsCsv(files[i]) /\ fileState[i] = "Skipped") =>
            \E n \in NoticesOf(files[i].name) : n.reason.text = NoRowsText

\* the selected parse of the current text source has a header and no rows
HeaderOnlySettles ==
    /\ pc = "parsing"
    /\ IsCsv(files[index])
    /\ attempt = GridSize
    /\ bestOverallResult # NoResult
    /\ Len(bestOverallResult.data) = 0

\* the notices the step appends
AddedNotices == SubSeq(processingErrors', Len(processingErrors) + 1, Len(processingErrors'))

EmptyTextSourceStep ==
    HeaderOnlySettles =>
        /\ allResults' = allResults
        /\ fileState'[index] = "Skipped"
        /\ \A n \in Range(AddedNotices) : n.fileName = files[index].name
        /\ IF Len(bestOverallResult.errors) = 0
           THEN /\ Len(AddedNotices) = 1
                /\ AddedNotices[1].reason.text = NoRowsText
           ELSE /\ Len(AddedNotices) = Len(bestOverallResult.errors)
                /\ \A k \in 1..Len(AddedNotices) :
                      /\ AddedNotices[k].reason.text = "Line"
                      /\ AddedNotices[k].reason.code = bestOverallResult.errors[k].code

\* C26: a text source whose selected parse has a header and zero data rows
\* contributes no ParseResult and ends Skipped; processFiles records the
\* 'no data rows' notice for it exactly when the selected parse carries no
\* row diagnostics, and otherwise records only the diagnostics.
C26_EmptyTextSource == [][EmptyTextSourceStep]_vars

\* C26 witness: a header-only text source with a diagnostic has been skipped
\* with its diagnostics as the only notices.
C26_Witness ==
    /\ \E i \in 1..Len(files) :
          /\ IsCsv(files[i]) /\ fileState[i] = "Skipped"
          /\ NoticesOf(files[i].name) # {}
          /\ \A n \in NoticesOf(files[i].name) : n.reason.text = "Line"

\* the call has been rejected at file number index: nothing was returned and
\* the files from there on were never attempted
RejectedCall ==
    pc = "rejected" =>
        /\ returned = NothingReturned
        /\ \A i \in index..Len(files) : fileState[i] = "Admitted"
        /\ progressCalls # <<>>
        /\ progressCalls[Len(progressCalls)].processedCount = index

\* the head of the loop body adds no notice, and a rejected call does nothing more
ObserverStep ==
    /\ pc = "top" =>
          /\ pc' \in {"parsing", "rejected"}
          /\ processingErrors' = processingErrors
          /\ allResults' = allResults
    /\ pc = "rejected" => UNCHANGED vars

\* C30: an exception thrown by the progress observer is not turned into a
\* notice: processFiles rejects, the remaining files are never attempted and
\* no result is returned.
C30_ObserverExceptionRejects == [](RejectedCall) /\ [][ObserverStep]_vars

\* C30 witness: the observer threw at the second file of three, after the
\* first one had been handled: the last two files are still Admitted.
C30_Witness ==
    /\ pc = "rejected"
    /\ Len(files) = 3
    /\ index = 2
    /\ fileState[1] \in {"Parsed", "Skipped", "Failed"}
    /\ fileState[2] = "Admitted" /\ fileState[3] = "Admitted"
    /\ returned = NothingReturned

(***************************************************************************)
(* The call under a scheduler that runs every continuation: the timer of   *)
(* the loop head fires and each parser call completes, so the step that    *)
(* waits for it is taken.  Nothing obliges the observer to throw or the    *)
(* caller to call again.                                                   *)
(***************************************************************************)
LiveBatches ==
    UNION {[1..n -> Core] : n \in 1..MaxFiles}
        \cup {<<f>> : f \in Catalog \cup Singles}
        \cup {<<FileA, FileE, FileZ>>, <<FileQ, FileW, FileR>>}

InitLive ==
    /\ files \in LiveBatches
    /\ observer \in Observers
    /\ pc = "top"
    /\ index = 1
    /\ attempt = 0
    /\ bestOverallResult = NoResult
    /\ allResults = <<>>
    /\ processingErrors = <<>>
    /\ returned = NothingReturned
    /\ progressCalls = <<>>
    /\ fileState = [i \in 1..Len(files) |-> "Admitted"]
    /\ firstSeen = {}
    /\ columnTypes = <<>>
    /\ run = 1
    /\ firstReturned = NothingReturned
    /\ selected = <<>>
    /\ validation = NotValidated
    /\ AppMounted

\* a parser call has completed and processFiles has yet to handle what it got:
\* the guards of CsvSettle and ExcelSettle
SettlePending ==
    /\ pc = "parsing"
    /\ \/ IsCsv(files[index]) /\ attempt = GridSize
       \/ ~IsCsv(files[index]) /\ IsExcel(files[index])

\* Weak fairness of the two settle steps is stated through their guard: where
\* one of them is enabled it is the only step there is, and taking it ends
\* SettlePending, so WF_vars(CsvSettle) /\ WF_vars(ExcelSettle) is the same
\* as SettlePending not lasting forever.
SpecLive ==
    /\ InitLive
    /\ [][Next]_vars
    /\ WF_vars(StartFile)
    /\ WF_vars(CsvAttempt)
    /\ []<>(~SettlePending)

Running == pc \in {"top", "parsing"}

TerminalStates == {"Parsed", "Skipped", "Failed"}

SettlesFile ==
    (pc = "parsing" /\ pc' # "parsing") =>
        /\ fileState'[index] \in TerminalStates
        /\ fileState'[index] = "Parsed" => Len(allResults') > Len(allResults)
        /\ fileState'[index] # "Parsed" =>
              /\ allResults' = allResults
              /\ Len(processingErrors') > Len(processingErrors)
              /\ \A k \in (Len(processingErrors) + 1)..Len(processingErrors') :
                    processingErrors'[k].fileName = files[index].name

\* a terminal outcome is final, and every file is terminal at the return
OutcomesAreFinal ==
    /\ \A i \in 1..Len(files) :
          (fileState[i] \in TerminalStates /\ pc # "returned") => fileState'[i] = fileState[i]
    /\ pc' = "returned" =>
          /\ \A i \in 1..Len(files) : fileState'[i] \in TerminalStates
          /\ returned'.errors = processingErrors'
          /\ returned'.errors = <<>> => \A i \in 1..Len(files) : fileState'[i] = "Parsed"

ZeroRows == \A i \in 1..Len(allResults) : Len(allResults[i].data) = 0

EmptyRunStep ==
    /\ (pc' = "returned" /\ pc # "returned" /\ Len(files) > 0 /\ ZeroRows') =>
          /\ returned'.headers = <<>>
          /\ returned'.data = <<>>
          /\ returned'.errors = processingErrors'
    /\ (pc = "returned" /\ pc' = "idle" /\ ZeroRows) =>
          /\ appError' = NoDataConsolidated
          /\ appProcessingErrors' = Messages(processingErrors)
          /\ appHeaders' = <<>>
          /\ appData' = <<>>

\* C23: when a run over at least one admitted file consolidates zero rows,
\* processFiles returns empty headers and rows together with every collected
\* notice (it resolves, it does not reject), and the App turns this into
\* the 'No data could be consolidated' error while recording the notices.
C23_EmptyRunIsReported == [][EmptyRunStep]_vars

\* C23 witness: a run over a workbook without data rows has resolved and the
\* App shows the error next to the file's notice.
C23_Witness ==
    /\ pc = "idle"
    /\ run > 0
    /\ shownFor # <<>>
    /\ appError = NoDataConsolidated
    /\ Len(appProcessingErrors) > 0
    /\ appData = <<>>

\* the button is offered, nothing is selected anew and no file is admitted:
\* the one thing that can happen is the request
RequestWithoutFiles ==
    (ButtonOffered /\ Len(validation.validFiles) = 0 /\ changes' = changes /\ vars' # vars) =>
        /\ appError' = PleaseSelect
        /\ run' = run
        /\ pc' = pc
        /\ isProcessing' = FALSE
        /\ appProcessingErrors' = appProcessingErrors
        /\ progressCalls' = progressCalls

\* C24: requesting processing with zero admitted files sets the App's error
\* and does nothing else: processFiles is not invoked, isProcessing stays
\* false and the processing notices are left as they are.
C24_RequestWithoutFiles == [][RequestWithoutFiles]_vars

\* C24 witness: every selected file was discarded and processing was
\* requested: the error is set, no call was ever made.
C24_Witness ==
    /\ Len(selected) > 0
    /\ validation.done
    /\ Len(validation.validFiles) = 0
    /\ appError = PleaseSelect
    /\ ~isProcessing
    /\ run = 0

\* C28: if new files are selected while a run is in flight, the result of
\* that run is not installed over the reset state: whenever no run is in
\* flight, the displayed headers and data are empty or are the output of
\* processing the currently selected valid files.  (In AppSelections two
\* different batches of valid files never give the same non-empty output,
\* so the batch a result was computed for identifies the output.)
C28_AsStated ==
    ~isProcessing =>
        \/ appHeaders = <<>> /\ appData = <<>>
        \/ shownFor = validation.validFiles

\* the case that refutes C28: W.xlsx was selected and its run started, A.csv
\* was selected while the run was in flight, and the run then resolved: the
\* rows of W.xlsx are displayed while A.csv is the selection
C28_StaleResultShown ==
    /\ ~isProcessing
    /\ pc = "idle"
    /\ changes = 2
    /\ run = 1
    /\ shownFor = <<AppFile(FileW, 5)>>
    /\ validation.validFiles = <<AppFile(FileA, 5)>>
    /\ Len(appData) > 0
    /\ appData = returned.data

\* a call of processFiles has been made and handleProcessFiles has not yet
\* run its finally block
InFlight == pc # "idle"

ProcessingFlag ==
    /\ isProcessing <=> InFlight
    /\ ~isProcessing => processingProgress = NoProgress
    /\ isProcessing => processingProgress.set

ProcessingStep ==
    /\ run' # run => (~InFlight /\ ~isProcessing /\ isProcessing' /\ InFlight' /\ run' = run + 1)
    /\ (InFlight /\ ~InFlight') =>
          /\ pc \in {"returned", "rejected"}
          /\ ~isProcessing'
          /\ processingProgress' = NoProgress

\* C29: isProcessing is true exactly while a processFiles run is in flight:
\* it is set with the call and reset, with the progress cleared to null,
\* when the call resolves (with rows or without) or rejects; the button is
\* not offered while it is true, so a call is only ever started when none
\* is in flight.
C29_OneRunAtATime == [](ProcessingFlag) /\ [][ProcessingStep]_vars

\* C29 witness: a second run is in flight after a first one has rejected
\* and been cleaned up.
C29_Witness ==
    /\ run = 2
    /\ isProcessing
    /\ pc = "parsing"
    /\ appError = NoError
    /\ processingProgress.processedCount = 1

====
